---- MODULE Spec2Model ----
(***************************************************************************)
(* A model of the network session / transport core of bittensor's staging  *)
(* package:                                                                *)
(*   - NetworkManager            (bittensor/staging/netman.py)             *)
(*   - WebSocketTransport        (bittensor/staging/transport.py)          *)
(*   - SubstrateProxyInterface   (bittensor/staging/sub_subtensor.py)      *)
(*   - AsyncWebsocketClient      (bittensor/staging/wsclient.py)           *)
(*   - EventHook                 (bittensor/staging/event_hooks.py)        *)
(* Each component has its own group of variables and its own               *)
(* specification; a specification leaves the other groups unchanged.       *)
(***************************************************************************)
EXTENDS Integers, Sequences, FiniteSets, TLC

(***************************************************************************)
(* Bounds of the model.                                                    *)
(***************************************************************************)
\* queue_size handed to NetworkManager(transport, network, queue_size)
QueueSize == 2
\* number of send_data calls made by the application in one behaviour
MaxSends == 4
\* int(loop.time()) ranges over 0..MaxTime
MaxTime == 3
\* max_retries handed to WebSocketTransport(url, max_retries, ...)
MaxRetries == 1
\* request ids one SubstrateProxyInterface allocates in one behaviour
MaxRpcIds == 3
\* messages websocket.recv returns in one behaviour
MaxRpcMsgs == 3
\* largest max_retries given to AsyncWebsocketClient(uri, retry_interval, max_retries)
MaxWsRetries == 3
\* connect calls made on one AsyncWebsocketClient in one behaviour
MaxWsCalls == 3
\* receive() calls made on one WebSocketTransport in one behaviour
MaxReceives == 3
\* calls that are inside the loop of WebSocketTransport.connect at one time
MaxLoops == 2
\* files _process_persistent_data("send") processes in one behaviour
MaxReplays == 2
\* entries one _notify_subscribers call adds to the list it iterates over
MaxAppends == 2
\* enqueue_message calls made on one AsyncWebsocketClient in one behaviour
MaxWcMsgs == 2
\* connections one AsyncWebsocketClient makes in one behaviour
MaxConnections == 3
\* inbound messages the receivers of one AsyncWebsocketClient read in one behaviour
MaxArrivals == 2
\* subscribe calls made on one EventHook in one behaviour
MaxEhSubs == 3
\* subscribe and unsubscribe calls made on one NetworkManager in one behaviour
MaxNmSubs == 3
\* send_data calls made in the receive-side specification
RecvSends == 1
\* inbound messages handed to the manager in one behaviour
MaxInbound == 5

None == "None"

VARIABLES
    \* ---- NetworkManager (netman.py) ----
    now,            \* int(self.loop.time()): whole seconds of the loop clock
    stub,           \* behaviour of the websocket under the transport (test stub)
    send_queue,     \* self.send_queue
    receive_queue,  \* self.receive_queue
    callbacks,      \* self.callbacks: request_id -> callback
    accept_data,    \* self.accept_data
    storage,        \* the files of self.storage_dir
    send_pc,        \* the _process_send_queue task: none / scheduled / sending
    send_delay,     \* delay the next _process_send_queue iteration was scheduled with
    inflight,       \* local `data` of _process_send_queue while transport.send runs
    retries,        \* `retries` argument of the running _send_with_retries
    attempts,       \* executions of the try block for the message in flight
    sleeps,         \* backoff sleeps made for the message in flight
    first_exc,      \* what the first attempt for the message in flight raised
    last_send,      \* how the last finished transport.send went
    wire,           \* request ids the receiving end of the transport observed
    dropped,        \* request ids dropped after a FatalError
    sends,          \* number of send_data calls made so far
    recv_pc,        \* the _process_receive_queue task: none / scheduled / blocked
    recv_delay,     \* delay the next _process_receive_queue iteration was scheduled with
    recv_files,     \* files _process_persistent_data('receive') still has to replay
    triggered,      \* request_id -> number of times its callback was triggered
    inbound,        \* number of inbound messages handed to the manager so far
    \* ---- SubstrateProxyInterface.rpc_request (sub_subtensor.py) ----
    rpc_next_id,    \* self.request_id
    rpc_queue,      \* self.__rpc_message_queue
    rpc_pc,         \* idle / sending / waiting (in websocket.recv) / returned / raised
    rpc_req,        \* local request_id of the running call
    rpc_handler,    \* whether the running call was given a callable result_handler
    rpc_stop,       \* the update number from which result_handler returns a value
    rpc_sub,        \* local subscription_id
    rpc_update_nr,  \* local update_nr
    rpc_body,       \* local json_body
    rpc_handled,    \* the result_handler invocations of the running call
    rpc_answer,     \* the response that set subscription_id, NoAnswer before it
    rpc_log,        \* the messages websocket.recv returned so far, in arrival order
    rpc_payloads,   \* request ids of the payloads handed to websocket.send
    rpc_retries,    \* the times the running or last call called itself after a reconnect
    auto_reconnect, \* self.config['auto_reconnect']
    \* ---- NetworkManager: the subscriptions table ----
    subscriptions,  \* self.subscriptions: topic -> list of callbacks
    sub_topic,      \* the topic of the last message given to _notify_subscribers
    sub_calls,      \* the callbacks that call triggered, in order
    it_topic,       \* the topic whose list the loop thread is iterating over, or None
    it_index,       \* the position in the list the for loop of line 304 has reached
    it_list,        \* the topic's list as it was when that iteration began
    unsubscribed,   \* <<topic, callback>> of the unsubscribe calls that returned, less
                    \* those subscribed again since
    nm_subs,        \* subscribe and unsubscribe calls made so far
    \* ---- NetworkManager: the background tasks and cleanup ----
    send_task,      \* self.send_task: none / pending / done / cancelled
    receive_task,   \* self.receive_task: none / pending / done / cancelled
    cleaned,        \* cleanup(): "no", or "unstarted" / "started" when it has completed
    storage_dir,    \* the directory made by tempfile.mkdtemp: "exists" / "removed"
                    \* before / after start()
    ran_after_cleanup,  \* an iteration of a loop started before cleanup() ran after it
    replay_files,   \* _process_persistent_data("send"): the names (stamps) of the files
                    \* its for loop has still to process
    replayed,       \* files _process_persistent_data("send") has processed so far
    last_replay,    \* the last file it processed: the message read, the message that
                    \* re-entered the send path, the undelivered count before and after
    \* ---- AsyncWebsocketClient (wsclient.py) ----
    ws_max_retries,     \* self.max_retries
    ws_retry_interval,  \* self.retry_interval
    ws_connected,       \* self.connected
    ws_websocket,       \* self.websocket: 0 for None, else the number of the connection
    ws_pc,              \* the connect call: idle (none running) / connecting
    ws_retry_count,     \* local retry_count of the running connect call
    ws_attempts,        \* websockets.connect calls made by the running or last connect call
    ws_delays,          \* the sleeps of the running or last connect call, in order
    ws_result,          \* how the last connect call ended: returned or the exception raised
    ws_senders,         \* sender tasks created so far
    ws_receivers,       \* receiver tasks created so far
    ws_calls,           \* connect calls made so far
    ws_refused,         \* every websockets.connect so far failed with a retryable error
    \* ---- EventHook (event_hooks.py) ----
    eh_listeners,   \* self._listeners: the keys in insertion order, each with its list
    eh_raising,     \* the listeners that raise an exception when called
    eh_notified,    \* the arguments of the last notify, made on the present registrations
    eh_calls,       \* the listeners that notify called, in order
    eh_escaped,     \* an exception left that notify
    eh_error,       \* the last unsubscribe raised ValueError
    eh_subs,        \* subscribe calls made so far
    eh_registered,  \* the registrations in force, in the order of their subscribe calls
    \* ---- WebSocketTransport (transport.py) ----
    tr_connection,  \* self.connection: none (None), open, or closed (connection.closed)
    tr_connecting,  \* the number of calls inside the `async for` loop of connect()
    tr_history,     \* the receive() calls made: what recv() did, how receive() ended,
                    \* and self.connection when _ensure_connection returned
    tr_ops,         \* the last two calls made on the transport, and what each did
    \* ---- the tasks of AsyncWebsocketClient (wsclient.py) ----
    wc_send_queue,  \* self.send_queue: the numbers of the messages, the head first
    wc_enqueued,    \* enqueue_message calls made so far; the n-th message has number n
    wc_file,        \* the content of ws_send_queue.json
    wc_websocket,   \* self.websocket: 0 for None, else the number of the connection
    wc_state,       \* the state of each connection made: open / closing / closed
    wc_senders,     \* the sender tasks created: where each is and the message it holds
    wc_receivers,   \* the receiver task created with each connection: running / ended
    wc_callbacks,   \* the topics self.callbacks has an entry for
    wc_wire,        \* the messages written to a connection, in order
    wc_arrived,     \* inbound messages read by a receiver so far
    wc_raised       \* a callback called by a receiver raised

nmVars == <<now, stub, send_queue, receive_queue, callbacks, accept_data, storage,
            send_pc, send_delay, inflight, retries, attempts, sleeps, first_exc,
            last_send, wire, dropped, sends, recv_pc, recv_delay, recv_files,
            triggered, inbound, subscriptions, sub_topic, sub_calls, unsubscribed,
            nm_subs, it_topic, it_index, it_list, send_task, receive_task, cleaned, storage_dir,
            ran_after_cleanup, replay_files, replayed, last_replay>>

replayVars == <<replay_files, replayed, last_replay>>

taskVars == <<send_task, receive_task, cleaned, storage_dir, ran_after_cleanup, replayVars>>

iterVars == <<it_topic, it_index, it_list>>

subVars == <<subscriptions, sub_topic, sub_calls, unsubscribed, nm_subs, iterVars>>

sendVars == <<send_queue, callbacks, accept_data, send_pc, send_delay, inflight,
              retries, attempts, sleeps, first_exc, last_send, wire, dropped, sends>>

recvVars == <<receive_queue, recv_pc, recv_delay, recv_files, triggered, inbound>>

rpcVars == <<rpc_next_id, rpc_queue, rpc_pc, rpc_req, rpc_handler, rpc_stop, rpc_sub,
             rpc_update_nr, rpc_body, rpc_handled, rpc_answer, rpc_log,
             rpc_payloads, rpc_retries, auto_reconnect>>

wsVars == <<ws_max_retries, ws_retry_interval, ws_connected, ws_websocket, ws_pc,
            ws_retry_count, ws_attempts, ws_delays, ws_result, ws_senders,
            ws_receivers, ws_calls, ws_refused>>

ehVars == <<eh_listeners, eh_raising, eh_notified, eh_calls, eh_escaped, eh_error,
            eh_subs, eh_registered>>

trVars == <<tr_connection, tr_connecting, tr_history, tr_ops>>

wcVars == <<wc_send_queue, wc_enqueued, wc_file, wc_websocket, wc_state, wc_senders,
           wc_receivers, wc_callbacks, wc_wire, wc_arrived, wc_raised>>

vars == <<nmVars, rpcVars, wsVars, ehVars, trVars, wcVars>>

\* what the operations of one component leave alone
notNM == <<rpcVars, wsVars, ehVars, trVars, wcVars>>
notRPC == <<nmVars, wsVars, ehVars, trVars, wcVars>>
notWS == <<nmVars, rpcVars, ehVars, trVars, wcVars>>
notEH == <<nmVars, rpcVars, wsVars, trVars, wcVars>>
notTR == <<nmVars, rpcVars, wsVars, ehVars, wcVars>>
notWC == <<nmVars, rpcVars, wsVars, ehVars, trVars>>

(***************************************************************************)
(* NetworkManager: messages and the storage directory.                     *)
(***************************************************************************)

\* netman.py:140-147, the message send_data builds.  generate_request_token()
\* draws a random token; the model gives the n-th call the token n.
Message(request_id, data, topic, callback) ==
    [request_id |-> request_id, data |-> data, topic |-> topic, callback |-> callback]

\* A file of self.storage_dir: f"{direction}_{stamp}.json" holding `content`.
File(direction, stamp, content) ==
    [direction |-> direction, stamp |-> stamp, content |-> content]

\* json.dump(data, open(storage_dir / f"{direction}_{int(loop.time())}.json", "w")):
\* the file is named by the whole second t, and "w" truncates a file of that name.
persist_data(st, data, direction, t) ==
    {f \in st : ~(f.direction = direction /\ f.stamp = t)} \cup {File(direction, t, data)}

\* The clock readings of n consecutive _persist_data calls made without
\* suspending: the first reads `now`, each later one the same second or the next.
Stamps(n) ==
    {s \in [1..n -> now..MaxTime] :
        /\ s[1] = now
        /\ \A i \in 1..(n - 1) : s[i + 1] \in {s[i], s[i] + 1}}

\* _flush_queue_to_disk: one _persist_data per item, in queue order.
RECURSIVE flush_queue_to_disk(_, _, _, _)
flush_queue_to_disk(st, items, direction, times) ==
    IF items = <<>> THEN st
    ELSE flush_queue_to_disk(persist_data(st, Head(items), direction, Head(times)),
                             Tail(items), direction, Tail(times))

\* storage_dir.glob(f"{direction}_*.json")
Glob(direction) == {f \in storage : f.direction = direction}

\* sorted(..., key=os.path.getmtime): a file is last written during the second
\* its name carries, so modification-time order is the order of the timestamps.
RECURSIVE SortedByMtime(_)
SortedByMtime(S) ==
    IF S = {} THEN <<>>
    ELSE LET f == CHOOSE x \in S : \A y \in S : x.stamp <= y.stamp
         IN  <<f>> \o SortedByMtime(S \ {f})

Range(s) == {s[i] : i \in DOMAIN s}

\* `inflight` while no transport.send is awaited, `last_send` before the first one
NoMessage == Message(0, 0, None, None)
\* `last_replay` before the first replay
NoReplay == [old |-> NoMessage, new |-> NoMessage, before |-> 0, after |-> 0]
NoSend == [request_id |-> 0, first_exc |-> None, attempts |-> 0, sleeps |-> 0,
           outcome |-> None]

(***************************************************************************)
(* NetworkManager: construction, start and the clock.                      *)
(***************************************************************************)

\* netman.py:49-70
InitNM ==
    /\ now = 0
    /\ send_queue = <<>>
    /\ receive_queue = <<>>
    /\ callbacks = <<>>
    /\ accept_data = TRUE
    /\ storage = {}
    /\ send_pc = "none"
    /\ send_delay = 0
    /\ inflight = NoMessage
    /\ retries = 0
    /\ attempts = 0
    /\ sleeps = 0
    /\ first_exc = None
    /\ last_send = NoSend
    /\ wire = <<>>
    /\ dropped = {}
    /\ sends = 0
    /\ recv_pc = "none"
    /\ recv_delay = 0
    /\ recv_files = <<>>
    /\ triggered = [i \in 1..MaxSends |-> 0]
    /\ inbound = 0
    /\ subscriptions = <<>>
    /\ sub_topic = None
    /\ sub_calls = <<>>
    /\ it_topic = None
    /\ it_index = 0
    /\ it_list = <<>>
    /\ unsubscribed = {}
    /\ nm_subs = 0
    /\ send_task = "none"
    /\ receive_task = "none"
    /\ cleaned = "no"
    /\ storage_dir = "exists"
    /\ ran_after_cleanup = FALSE
    /\ replay_files = <<>>
    /\ replayed = 0
    /\ last_replay = NoReplay

\* netman.py:80-83
start ==
    /\ send_pc = "none"
    /\ recv_pc = "none"
    /\ send_pc' = "scheduled"
    /\ recv_pc' = "scheduled"
    /\ send_task' = "pending"
    /\ receive_task' = "pending"
    /\ UNCHANGED <<cleaned, storage_dir, ran_after_cleanup, replayVars>>
    /\ UNCHANGED <<now, stub, send_queue, receive_queue, callbacks, accept_data,
                   storage, send_delay, inflight, retries, attempts, sleeps,
                   first_exc, last_send, wire, dropped, sends, recv_delay,
                   recv_files, triggered, inbound, subVars>>

\* a second of the loop clock passes
Tick ==
    /\ now < MaxTime
    /\ now' = now + 1
    /\ UNCHANGED <<stub, sendVars, storage, recvVars, subVars, taskVars>>

(***************************************************************************)
(* NetworkManager.send_data                                                *)
(***************************************************************************)

\* a queue that takes one item more than its maxsize
fullAboveMaxsize(queue) == Len(queue) > QueueSize

\* asyncio.Queue.full() of a queue made with Queue(maxsize=queue_size)
\* (netman.py:56-57), as netman.py:154 asks it; Queue.put waits while it holds
full(queue) == Len(queue) >= QueueSize

\* send_data without the test of accept_data
PersistsDirectlyNever(accepting) == FALSE

\* netman.py:149: `if not self.accept_data`
PersistsDirectly(accepting) == ~accepting

\* netman.py:118-168
send_data(data, topic, callback) ==
    LET request_id == sends + 1
        message == Message(request_id, data, topic, callback)
    IN  /\ sends' = sends + 1
        /\ IF PersistsDirectly(accept_data)
           THEN /\ storage' = persist_data(storage, message, "send", now)
                /\ UNCHANGED <<send_queue, callbacks, accept_data, now>>
           ELSE IF ~full(send_queue)
           THEN /\ send_queue' = Append(send_queue, message)
                /\ callbacks' = IF callback # None
                                THEN [k \in (DOMAIN callbacks) \cup {request_id} |->
                                        IF k = request_id THEN callback ELSE callbacks[k]]
                                ELSE callbacks
                /\ UNCHANGED <<storage, accept_data, now>>
           ELSE \E times \in Stamps(Len(send_queue) + 1) :
                /\ storage' = persist_data(
                                 flush_queue_to_disk(storage, send_queue, "send", times),
                                 message, "send", times[Len(times)])
                /\ send_queue' = <<>>
                /\ accept_data' = FALSE
                /\ now' = times[Len(times)]
                /\ UNCHANGED callbacks
        /\ UNCHANGED <<stub, send_pc, send_delay, inflight, retries, attempts, sleeps,
                       first_exc, last_send, wire, dropped, recvVars, subVars, taskVars>>

\* the application calls send_data(data, callback=...)
SendData ==
    /\ sends < MaxSends
    /\ \E callback \in {None, "on_response"} : send_data(sends + 1, "general", callback)

(***************************************************************************)
(* NetworkManager._process_persistent_data("send")                         *)
(***************************************************************************)

\* netman.py:334 and 139-147: `await self.send_data(data)` hands the whole
\* persisted message dict over as the `data` argument, so it becomes the `data`
\* field of the new message.  The dict of the message with request id r is
\* written 0 - r, which no payload of the application equals.
AsData(message) == 0 - message.request_id

\* messages waiting to be sent: in the send queue and in the send files
Undelivered(queue, st) ==
    Len(queue) + Cardinality({f \in st : f.direction = "send"})

\* os.remove(file) for the send file with this stamp in its name
Remove(st, stamp) == {f \in st : ~(f.direction = "send" /\ f.stamp = stamp)}

\* netman.py:328-330: the for loop starts on the list of the send files, sorted
\* by modification time.
replay_begin ==
    /\ replay_files = <<>>
    /\ Glob("send") # {}
    /\ LET files == SortedByMtime(Glob("send"))
       IN  replay_files' = [i \in DOMAIN files |-> files[i].stamp]
    /\ UNCHANGED <<now, stub, sendVars, storage, recvVars, subVars, send_task, receive_task,
                   cleaned, storage_dir, ran_after_cleanup, replayed, last_replay>>

\* netman.py:331-337, one pass of the for loop: the file is read, its content is
\* given to send_data (netman.py:136-163, topic and callback left to their
\* defaults), and the file of that name is removed.
replay_file ==
    /\ replay_files # <<>>
    /\ replayed < MaxReplays
    /\ \E file \in Glob("send") :
          /\ file.stamp = Head(replay_files)
          /\ LET old == file.content
                 new == Message(sends + 1, AsData(old), "general", None)
             IN  /\ IF PersistsDirectly(accept_data)
                    THEN /\ storage' = Remove(persist_data(storage, new, "send", now),
                                              file.stamp)
                         /\ UNCHANGED <<send_queue, accept_data, now>>
                    ELSE IF ~full(send_queue)
                    THEN /\ send_queue' = Append(send_queue, new)
                         /\ storage' = Remove(storage, file.stamp)
                         /\ UNCHANGED <<accept_data, now>>
                    ELSE \E times \in Stamps(Len(send_queue) + 1) :
                         /\ storage' =
                               Remove(persist_data(
                                         flush_queue_to_disk(storage, send_queue, "send",
                                                             times),
                                         new, "send", times[Len(times)]),
                                      file.stamp)
                         /\ send_queue' = <<>>
                         /\ accept_data' = FALSE
                         /\ now' = times[Len(times)]
                 /\ last_replay' = [old |-> old, new |-> new,
                                    before |-> Undelivered(send_queue, storage),
                                    after |-> Undelivered(send_queue', storage')]
    /\ sends' = sends + 1
    /\ replayed' = replayed + 1
    /\ replay_files' = Tail(replay_files)
    /\ UNCHANGED <<stub, callbacks, send_pc, send_delay, inflight, retries, attempts,
                   sleeps, first_exc, last_send, wire, dropped, recvVars, subVars,
                   send_task, receive_task, cleaned, storage_dir, ran_after_cleanup>>

\* no pass of the for loop suspends: nothing else of the manager runs between
\* two passes
ReplayIdle == replay_files = <<>>

(***************************************************************************)
(* WebSocketTransport._send_with_retries and                               *)
(* NetworkManager._process_send_queue                                      *)
(***************************************************************************)

\* What one execution of the try block of _send_with_retries (transport.py:192-195)
\* may raise under each stub: nothing (None), an exception of the first except
\* clause (WebSocketException, TimeoutError, WebSocketProtocolError), or any other
\* exception.
Raises ==
    CASE stub = "ok" -> {None}
      [] stub = "retryable" -> {"WebSocketException"}
      [] OTHER -> {None, "WebSocketException", "Exception"}

\* the task of start() is done when the first iteration ends; the later
\* iterations are tasks of their own (netman.py:217)
Finished(task) == IF task = "pending" THEN "done" ELSE task

\* netman.py:236-241 and 252-254: the iteration up to the await of transport.send,
\* or the whole iteration when the queue is empty.
process_send_queue ==
    /\ send_pc = "scheduled"
    /\ IF send_queue # <<>>
       THEN /\ inflight' = Head(send_queue)
            /\ send_queue' = Tail(send_queue)
            /\ send_pc' = "sending"
            /\ retries' = 0
            /\ attempts' = 0
            /\ sleeps' = 0
            /\ first_exc' = None
            /\ UNCHANGED <<send_delay, send_task>>
       ELSE /\ send_delay' = 1
            /\ send_task' = Finished(send_task)
            /\ UNCHANGED <<inflight, send_queue, send_pc, retries, attempts, sleeps,
                           first_exc>>
    /\ ran_after_cleanup' = (ran_after_cleanup \/ cleaned = "started")
    /\ UNCHANGED <<now, stub, receive_queue, callbacks, accept_data, storage, last_send,
                   wire, dropped, sends, recvVars, subVars, receive_task, cleaned,
                   storage_dir, replayVars>>

\* _send_with_retries with one except clause for every exception: a non-retryable
\* exception is retried like a retryable one.
SendOutcomeRetryAll(exc, n) ==
    CASE exc = None -> "ok"
      [] OTHER -> IF n < MaxRetries THEN "retry" ELSE "RetryableError"

\* transport.py:196-206: how _send_with_retries ends when its try block raised exc
\* with `retries` retries made: "retry" (sleep, then call itself with retries + 1),
\* or the exception it raises; "ok" when nothing was raised.
SendOutcome(exc, n) ==
    CASE exc = None -> "ok"
      [] exc = "WebSocketException" ->
            IF n < MaxRetries THEN "retry" ELSE "RetryableError"
      [] OTHER -> "FatalError"

\* _process_send_queue with the RetryableError clause logging like the
\* FatalError clause: the item is dropped.
AfterSendDropAll(outcome, data) ==
    CASE outcome = "ok" ->
            <<storage, Append(wire, data.request_id), dropped>>
      [] OTHER ->
            <<storage, wire, dropped \cup {data.request_id}>>

\* netman.py:241-251: what _process_send_queue does with `data` once transport.send
\* returned ("ok") or raised: <<storage, wire, dropped>> after it.
AfterSend(outcome, data) ==
    CASE outcome = "ok" ->
            <<storage, Append(wire, data.request_id), dropped>>
      [] outcome = "RetryableError" ->
            <<persist_data(storage, data, "send", now), wire, dropped>>
      [] OTHER ->
            <<storage, wire, dropped \cup {data.request_id}>>

\* One execution of the try block of _send_with_retries for the message in flight,
\* raising exc, and what follows it without suspending: the backoff sleep and the
\* recursive call, or the return to _process_send_queue, its except clauses and
\* the rescheduling (netman.py:242-251).
\* With write_fails, the open() of _persist_data (netman.py:317) raises OSError in
\* the RetryableError clause: the exception leaves _process_send_queue before
\* line 250 and no further iteration is scheduled.
send_with_retries(exc, write_fails) ==
    LET outcome == SendOutcome(exc, retries)
        first == IF attempts = 0 THEN exc ELSE first_exc
    IN  /\ send_pc = "sending"
        /\ attempts' = attempts + 1
        /\ first_exc' = first
        /\ IF outcome = "retry"
           THEN /\ sleeps' = sleeps + 1
                /\ retries' = retries + 1
                /\ UNCHANGED <<send_pc, send_delay, inflight, storage, wire, dropped,
                               last_send, send_task>>
           ELSE IF outcome = "RetryableError" /\ write_fails
           THEN /\ last_send' = [request_id |-> inflight.request_id,
                                 first_exc |-> first,
                                 attempts |-> attempts + 1,
                                 sleeps |-> sleeps,
                                 outcome |-> outcome]
                /\ send_pc' = "stopped"
                /\ inflight' = NoMessage
                /\ send_task' = Finished(send_task)
                /\ UNCHANGED <<storage, wire, dropped, send_delay, sleeps, retries>>
           ELSE /\ storage' = AfterSend(outcome, inflight)[1]
                /\ wire' = AfterSend(outcome, inflight)[2]
                /\ dropped' = AfterSend(outcome, inflight)[3]
                /\ last_send' = [request_id |-> inflight.request_id,
                                 first_exc |-> first,
                                 attempts |-> attempts + 1,
                                 sleeps |-> sleeps,
                                 outcome |-> outcome]
                /\ send_pc' = "scheduled"
                /\ send_delay' = 0
                /\ inflight' = NoMessage
                /\ send_task' = Finished(send_task)
                /\ UNCHANGED <<sleeps, retries>>
        /\ UNCHANGED <<now, stub, send_queue, receive_queue, callbacks, accept_data,
                       sends, recvVars, subVars, receive_task, cleaned, storage_dir,
                       ran_after_cleanup, replayVars>>

TransportSend == \E exc \in Raises : send_with_retries(exc, FALSE)

\* transport.send on a machine whose disk writes may fail
TransportSendFaulty ==
    \E exc \in Raises, write_fails \in BOOLEAN : send_with_retries(exc, write_fails)

(***************************************************************************)
(* NetworkManager.receive_data and _process_receive_queue                  *)
(***************************************************************************)

\* An inbound JSON-RPC message as receive_data reads it: data.get('id') and
\* data.get('topic', None).  The messages enumerated carry no topic; NoId stands
\* for a message without an id (data.get('id') is None).
NoId == 0
Inbound(id) == [id |-> id, topic |-> None]

\* an inbound message published on a topic, without an id
Published(topic) == [id |-> NoId, topic |-> topic]

NmTopics == {"t1", "t2"}
Callbacks == {"cb1", "cb2"}

\* an entry of a subscription list that is not callable: subscribe
\* (netman.py:256-271) appends whatever it is given
NonCallable == "not_callable"

\* netman.py:306, callable(callback)
callable(callback) == callback \in Callbacks

\* f with f[k] = v
Put(f, k, v) == [x \in (DOMAIN f) \cup {k} |-> IF x = k THEN v ELSE f[x]]

\* netman.py:299-312: _notify_subscribers has no `with lock:`, and neither has
\* receive_data (netman.py:196-198): the notify path never holds the lock.
NotifyHoldsLock == FALSE

\* netman.py:41, 266, 281: subscribe and unsubscribe enter `with lock:`, which
\* waits while another thread holds the module lock.
LockFree == ~NotifyHoldsLock

\* netman.py:256-271
nm_subscribe(topic, callback) ==
    /\ LockFree
    /\ nm_subs < MaxNmSubs
    /\ nm_subs' = nm_subs + 1
    /\ subscriptions' =
          Put(subscriptions, topic,
              Append(IF topic \in DOMAIN subscriptions THEN subscriptions[topic]
                     ELSE <<>>, callback))
    /\ unsubscribed' = unsubscribed \ {<<topic, callback>>}
    /\ sub_topic' = None
    /\ sub_calls' = <<>>
    /\ UNCHANGED <<now, stub, sendVars, storage, recvVars, taskVars, iterVars>>

NmSubscribe == \E topic \in NmTopics, callback \in Callbacks : nm_subscribe(topic, callback)

NmSubscribeNonCallable == \E topic \in NmTopics : nm_subscribe(topic, NonCallable)

\* netman.py:273-287: for a topic of the table, line 286 appends the callback to
\* the topic's list.
nm_unsubscribe(topic, callback) ==
    /\ LockFree
    /\ nm_subs < MaxNmSubs
    /\ nm_subs' = nm_subs + 1
    /\ subscriptions' =
          IF topic \notin DOMAIN subscriptions THEN subscriptions
          ELSE Put(subscriptions, topic, Append(subscriptions[topic], callback))
    /\ unsubscribed' = unsubscribed \cup {<<topic, callback>>}
    /\ sub_topic' = None
    /\ sub_calls' = <<>>
    /\ UNCHANGED <<now, stub, sendVars, storage, recvVars, taskVars, iterVars>>

NmUnsubscribe ==
    \E topic \in NmTopics, callback \in Callbacks : nm_unsubscribe(topic, callback)

\* netman.py:299-312, for a list of callable callbacks: _notify_subscribers
\* hands every callback of the topic's list to _trigger_callback, in list order;
\* an exception of one pass is logged (311-312) and the loop goes on.
notify_subscribers(topic) == subscriptions[topic]

\* netman.py:196-198 and 303-304, on the thread of the manager's event loop
\* (netman.py:68-74): a message on a topic of the table reaches
\* _notify_subscribers, whose for loop starts on the topic's list.
notify_begin(topic) ==
    /\ it_topic = None
    /\ topic \in DOMAIN subscriptions
    /\ it_topic' = topic
    /\ it_index' = 1
    /\ it_list' = subscriptions[topic]
    /\ sub_topic' = topic
    /\ sub_calls' = <<>>
    /\ UNCHANGED <<now, stub, sendVars, storage, recvVars, taskVars, subscriptions,
                   unsubscribed, nm_subs>>

NotifyBegin == \E topic \in NmTopics : notify_begin(topic)

\* netman.py:304-312: one pass of the for loop, which reads the list object of
\* the table at its position, or the end of the loop.  A callable entry is
\* handed to _trigger_callback; for any other entry the loop calls
\* self.unsubscribe(topic, callback) (netman.py:309-310), which appends the
\* entry to the list the loop is reading (netman.py:286).  Between two passes
\* the interpreter may run another thread.
notify_step ==
    /\ it_topic # None
    /\ IF it_index <= Len(subscriptions[it_topic])
       THEN LET callback == subscriptions[it_topic][it_index]
            IN  /\ IF callable(callback)
                   THEN /\ sub_calls' = Append(sub_calls, callback)
                        /\ UNCHANGED <<subscriptions, unsubscribed>>
                   ELSE /\ Len(subscriptions[it_topic]) < Len(it_list) + MaxAppends
                        /\ subscriptions' =
                              Put(subscriptions, it_topic,
                                  Append(subscriptions[it_topic], callback))
                        /\ unsubscribed' = unsubscribed \cup {<<it_topic, callback>>}
                        /\ UNCHANGED sub_calls
                /\ it_index' = it_index + 1
                /\ UNCHANGED <<it_topic, it_list>>
       ELSE /\ it_topic' = None
            /\ it_index' = 0
            /\ it_list' = <<>>
            /\ UNCHANGED <<sub_calls, subscriptions, unsubscribed>>
    /\ UNCHANGED <<now, stub, sendVars, storage, recvVars, taskVars, sub_topic, nm_subs>>

\* netman.py:190-195: the callback table is looked up, never changed;
\* _trigger_callback hands the callback to the loop once per call.
TriggerCallback(data) ==
    IF data.id # NoId /\ data.id \in DOMAIN callbacks
    THEN [triggered EXCEPT ![data.id] = @ + 1]
    ELSE triggered

\* netman.py:326-337 for direction "receive", from the file list `files` on:
\* <<receive_queue, storage, files left>> when the loop ends or suspends.
\* `await self.receive_queue.put(data)` suspends while the queue is full, with
\* the file read and not yet removed.  Only receive_data takes items off the
\* receive queue, and only the next iteration of _process_receive_queue calls it;
\* that iteration is scheduled (netman.py:225) after _process_persistent_data
\* returns, so a suspended put is never resumed.
RECURSIVE ReplayReceive(_, _, _)
ReplayReceive(queue, st, files) ==
    IF files = <<>> \/ full(queue)
    THEN <<queue, st, files>>
    ELSE ReplayReceive(Append(queue, Head(files).content),
                       st \ {Head(files)}, Tail(files))

\* netman.py:219-234, one iteration up to its end or to the put that suspends it.
\* With read_fails, json.load (netman.py:332) raises on the first persisted file:
\* the except clause of _process_receive_queue logs the exception, and line 225,
\* which schedules the next iteration, is skipped.
receive_iteration(read_fails) ==
    /\ recv_pc = "scheduled"
    /\ IF receive_queue = <<>> /\ read_fails /\ Glob("receive") # {}
       THEN /\ recv_pc' = "stopped"
            /\ receive_task' = Finished(receive_task)
            /\ UNCHANGED <<receive_queue, storage, recv_files, recv_delay, triggered,
                           sub_topic, sub_calls>>
       ELSE IF receive_queue = <<>>
       THEN LET r == ReplayReceive(receive_queue, storage,
                                   SortedByMtime(Glob("receive")))
            IN  /\ receive_queue' = r[1]
                /\ storage' = r[2]
                /\ recv_files' = r[3]
                /\ recv_pc' = IF r[3] = <<>> THEN "scheduled" ELSE "blocked"
                /\ recv_delay' = IF r[3] = <<>> THEN 1 ELSE recv_delay
                /\ receive_task' = IF r[3] = <<>> THEN Finished(receive_task)
                                   ELSE receive_task
                /\ UNCHANGED <<triggered, sub_topic, sub_calls>>
       ELSE /\ recv_delay' = 0
            /\ receive_queue' = Tail(receive_queue)
            /\ triggered' = TriggerCallback(Head(receive_queue))
            /\ IF /\ Head(receive_queue).topic # None
                  /\ Head(receive_queue).topic \in DOMAIN subscriptions
               THEN /\ sub_topic' = Head(receive_queue).topic
                    /\ sub_calls' = notify_subscribers(Head(receive_queue).topic)
               ELSE /\ sub_topic' = None
                    /\ sub_calls' = <<>>
            /\ receive_task' = Finished(receive_task)
            /\ UNCHANGED <<storage, recv_files, recv_pc>>
    /\ ran_after_cleanup' = (ran_after_cleanup \/ cleaned = "started")
    /\ UNCHANGED <<now, stub, sendVars, inbound, subscriptions, unsubscribed, nm_subs,
                   iterVars,
                   send_task, cleaned, storage_dir, replayVars>>

process_receive_queue == receive_iteration(FALSE)

\* an iteration on a machine whose persisted files may be unreadable
ProcessReceiveQueueFaulty == \E read_fails \in BOOLEAN : receive_iteration(read_fails)

\* The owner of the manager hands it an inbound message: on the receive queue
\* while it has room (Queue.put), else to the storage directory
\* (_persist_data(data, "receive"), netman.py:314-318).
Deliver(data) ==
    /\ inbound < MaxInbound
    /\ inbound' = inbound + 1
    /\ IF ~full(receive_queue)
       THEN /\ receive_queue' = Append(receive_queue, data)
            /\ UNCHANGED storage
       ELSE /\ storage' = persist_data(storage, data, "receive", now)
            /\ UNCHANGED receive_queue
    /\ UNCHANGED <<now, stub, sendVars, recv_pc, recv_delay, recv_files, triggered,
                   subVars, taskVars>>

Receive(id) == Deliver(Inbound(id))

ReceivePublished == \E topic \in NmTopics : Deliver(Published(topic))

ReceiveAny == \E id \in (1..RecvSends) \cup {NoId} : Receive(id)

\* send_data(data, callback=on_response) of the receive-side specification
RegisterRequest ==
    /\ sends < RecvSends
    /\ send_data(sends + 1, "general", "on_response")

(***************************************************************************)
(* NetworkManager.cleanup                                                  *)
(***************************************************************************)

\* netman.py:339-354.  Task.cancel() acts on a task that is not done: the task
\* of start() while the first iteration has not run or is suspended in it.  The
\* CancelledError raised at the await is no Exception, so no handler of the
\* iteration catches it and the iteration ends without scheduling the next one.
\* transport.close() may raise; the except clause logs it and shutil.rmtree,
\* which follows it in the try block, is skipped.
cleanup(close_raises) ==
    /\ cleaned = "no"
    /\ cleaned' = IF send_task = "none" THEN "unstarted" ELSE "started"
    /\ IF send_task = "pending"
       THEN /\ send_task' = "cancelled"
            /\ send_pc' = "cancelled"
            /\ inflight' = NoMessage
       ELSE UNCHANGED <<send_task, send_pc, inflight>>
    /\ IF receive_task = "pending"
       THEN /\ receive_task' = "cancelled"
            /\ recv_pc' = "cancelled"
       ELSE UNCHANGED <<receive_task, recv_pc>>
    /\ storage' = IF close_raises THEN storage ELSE {}
    /\ storage_dir' = IF close_raises THEN storage_dir ELSE "removed"
    /\ UNCHANGED <<now, stub, send_queue, receive_queue, callbacks, accept_data,
                   send_delay, retries, attempts, sleeps, first_exc, last_send, wire,
                   dropped, sends, recv_delay, recv_files, triggered, inbound, subVars,
                   ran_after_cleanup, replayVars>>

Cleanup == \E close_raises \in BOOLEAN : cleanup(close_raises)

\* send_data called by an application that does not use the manager after cleanup
SendBeforeCleanup == cleaned = "no" /\ SendData

(***************************************************************************)
(* SubstrateProxyInterface.rpc_request (staging/sub_subtensor.py:486-592;  *)
(* bittensor/sub_subtensor.py:449-555 is the same code)                    *)
(***************************************************************************)

SubIds == {"s1", "s2"}

\* A message websocket.recv returned, as rpc_request reads it: 'id', 'error',
\* 'result' of a response; 'params'.'subscription' of a push message; a message
\* with neither 'id' nor 'params' is of kind "other".  n is its arrival number.
Response(id, result, error) ==
    [kind |-> "response", id |-> id, result |-> result, error |-> error,
     subscription |-> None, n |-> 0]
Push(subscription) ==
    [kind |-> "push", id |-> 0, result |-> None, error |-> FALSE,
     subscription |-> subscription, n |-> 0]
Other == [kind |-> "other", id |-> 0, result |-> None, error |-> FALSE,
          subscription |-> None, n |-> 0]

RpcMessages ==
    {Response(id, r, FALSE) : id \in 1..MaxRpcIds, r \in SubIds}
        \cup {Response(id, None, TRUE) : id \in 1..MaxRpcIds}
        \cup {Push(sub) : sub \in SubIds}
        \cup {Other}

NoAnswer == Response(0, None, FALSE)

\* sub_subtensor.py:366-401
InitRPC ==
    /\ rpc_next_id = 1
    /\ rpc_queue = <<>>
    /\ rpc_pc = "idle"
    /\ rpc_req = 0
    /\ rpc_handler = FALSE
    /\ rpc_stop = 0
    /\ rpc_sub = None
    /\ rpc_update_nr = 0
    /\ rpc_body = None
    /\ rpc_handled = <<>>
    /\ rpc_answer = NoAnswer
    /\ rpc_log = <<>>
    /\ rpc_payloads = <<>>
    /\ rpc_retries = 0

RemoveAt(q, i) == SubSeq(q, 1, i - 1) \o SubSeq(q, i + 1, Len(q))

\* result_handler(message, update_nr, subscription_id): the caller's handler
\* returns None until update number rpc_stop, and a value from then on.
HandlerResult(update_nr) == IF update_nr >= rpc_stop THEN "value" ELSE None

\* The locals of the while loop, as the two for loops change them.
Locals(queue, sub, update_nr, body, handled, answer) ==
    [queue |-> queue, sub |-> sub, update_nr |-> update_nr, body |-> body,
     handled |-> handled, answer |-> answer, raised |-> FALSE]

\* sub_subtensor.py:534-553, the first for loop from index i on.  list_remove_iter
\* pops a message its body marked once the body is done, so the message whose
\* 'error' raises stays in the queue.
RECURSIVE SearchResponse(_, _)
SearchResponse(s, i) ==
    IF i > Len(s.queue) THEN s
    ELSE LET message == s.queue[i]
         IN  IF message.kind = "response" /\ message.id = rpc_req
             THEN IF message.error
                  THEN [s EXCEPT !.raised = TRUE]
                  ELSE IF rpc_handler
                  THEN SearchResponse([s EXCEPT !.queue = RemoveAt(s.queue, i),
                                                !.sub = message.result,
                                                !.answer = message], i)
                  ELSE SearchResponse([s EXCEPT !.queue = RemoveAt(s.queue, i),
                                                !.body = message.result], i)
             ELSE SearchResponse(s, i + 1)

\* the second for loop without `update_nr += 1`
RECURSIVE ProcessUpdatesSameNr(_, _)
ProcessUpdatesSameNr(s, i) ==
    IF i > Len(s.queue) THEN s
    ELSE LET message == s.queue[i]
         IN  IF message.kind = "push" /\ message.subscription = s.sub
             THEN LET callback_result == HandlerResult(s.update_nr)
                  IN  ProcessUpdatesSameNr(
                         [s EXCEPT !.queue = RemoveAt(s.queue, i),
                                   !.handled = Append(s.handled,
                                       [n |-> message.n,
                                        update_nr |-> s.update_nr,
                                        subscription_id |-> s.sub]),
                                   !.body = IF callback_result # None
                                            THEN callback_result ELSE s.body], i)
             ELSE ProcessUpdatesSameNr(s, i + 1)

\* sub_subtensor.py:555-569, the second for loop from index i on.
RECURSIVE ProcessUpdates(_, _)
ProcessUpdates(s, i) ==
    IF i > Len(s.queue) THEN s
    ELSE LET message == s.queue[i]
         IN  IF message.kind = "push" /\ message.subscription = s.sub
             THEN LET callback_result == HandlerResult(s.update_nr)
                  IN  ProcessUpdates(
                         [s EXCEPT !.queue = RemoveAt(s.queue, i),
                                   !.handled = Append(s.handled,
                                       [n |-> message.n,
                                        update_nr |-> s.update_nr,
                                        subscription_id |-> s.sub]),
                                   !.body = IF callback_result # None
                                            THEN callback_result ELSE s.body,
                                   !.update_nr = s.update_nr + 1], i)
             ELSE ProcessUpdates(s, i + 1)

\* sub_subtensor.py:532-573: one pass of the while loop over the queue, up to the
\* websocket.recv that reads one more message, the return, or the raise.
WhilePass(s) ==
    LET found == SearchResponse(s, 1)
    IN  IF found.raised THEN found ELSE ProcessUpdates(found, 1)

AfterPass(s) ==
    /\ rpc_queue' = s.queue
    /\ rpc_sub' = s.sub
    /\ rpc_update_nr' = s.update_nr
    /\ rpc_body' = s.body
    /\ rpc_handled' = s.handled
    /\ rpc_answer' = s.answer
    /\ rpc_pc' = IF s.raised THEN "raised"
                 ELSE IF s.body # None THEN "returned" ELSE "waiting"

\* a request id counter that a call leaves as it found it
IdKept(id) == id

\* sub_subtensor.py:503, self.request_id += 1
IdAfter(id) == id + 1

\* sub_subtensor.py:502-512: a call allocates its request id.
rpc_request(handler, stop) ==
    /\ rpc_pc \in {"idle", "returned", "raised"}
    /\ rpc_next_id <= MaxRpcIds
    /\ rpc_req' = rpc_next_id
    /\ rpc_next_id' = IdAfter(rpc_next_id)
    /\ rpc_retries' = 0
    /\ rpc_handler' = handler
    /\ rpc_stop' = stop
    /\ rpc_pc' = "sending"
    /\ rpc_sub' = None
    /\ rpc_update_nr' = 0
    /\ rpc_body' = None
    /\ rpc_handled' = <<>>
    /\ rpc_answer' = NoAnswer
    /\ UNCHANGED <<rpc_queue, rpc_log, rpc_payloads, auto_reconnect>>

RpcCall == \E handler \in BOOLEAN, stop \in {1, MaxRpcMsgs} : rpc_request(handler, stop)

\* sub_subtensor.py:514-530: websocket.send(payload) returns (closed = FALSE) or
\* raises WebSocketConnectionClosedException; then the first pass of the while
\* loop.  With auto_reconnect, connect_websocket() makes a new connection
\* (connects = TRUE) or raises, and rpc_request calls itself: the inner call
\* takes a new request id and sends again.
rpc_send(closed, connects) ==
    /\ rpc_pc = "sending"
    /\ rpc_payloads' = Append(rpc_payloads, rpc_req)
    /\ IF ~closed
       THEN /\ AfterPass(WhilePass(Locals(rpc_queue, rpc_sub, rpc_update_nr, rpc_body,
                                          rpc_handled, rpc_answer)))
            /\ UNCHANGED <<rpc_next_id, rpc_req, rpc_retries>>
       ELSE IF auto_reconnect /\ connects
       THEN /\ rpc_next_id <= MaxRpcIds
            /\ rpc_req' = rpc_next_id
            /\ rpc_next_id' = IdAfter(rpc_next_id)
            /\ rpc_retries' = rpc_retries + 1
            /\ UNCHANGED <<rpc_queue, rpc_pc, rpc_sub, rpc_update_nr, rpc_body,
                           rpc_handled, rpc_answer>>
       ELSE /\ rpc_pc' = "raised"
            /\ UNCHANGED <<rpc_next_id, rpc_req, rpc_queue, rpc_sub, rpc_update_nr,
                           rpc_body, rpc_handled, rpc_answer, rpc_retries>>
    /\ UNCHANGED <<rpc_handler, rpc_stop, rpc_log, auto_reconnect>>

RpcSend == \E closed \in BOOLEAN, connects \in BOOLEAN : rpc_send(closed, connects)

\* sub_subtensor.py:571-573 and the pass of the while loop that follows.
rpc_recv(message) ==
    /\ rpc_pc = "waiting"
    /\ Len(rpc_log) < MaxRpcMsgs
    /\ LET arrived == [message EXCEPT !.n = Len(rpc_log) + 1]
       IN  /\ rpc_log' = Append(rpc_log, arrived)
           /\ AfterPass(WhilePass(Locals(Append(rpc_queue, arrived), rpc_sub,
                                          rpc_update_nr, rpc_body, rpc_handled,
                                          rpc_answer)))
    /\ UNCHANGED <<rpc_next_id, rpc_req, rpc_handler, rpc_stop, rpc_payloads,
                   rpc_retries, auto_reconnect>>

\* The node answers only requests it was sent.
RpcRecv ==
    \E message \in RpcMessages :
        /\ message.kind = "response" => message.id \in Range(rpc_payloads)
        /\ rpc_recv(message)

(***************************************************************************)
(* AsyncWebsocketClient.connect (wsclient.py:22-35)                        *)
(***************************************************************************)

\* wsclient.py:11-20
InitWS ==
    /\ ws_connected = FALSE
    /\ ws_websocket = 0
    /\ ws_pc = "idle"
    /\ ws_retry_count = 0
    /\ ws_attempts = 0
    /\ ws_delays = <<>>
    /\ ws_result = None
    /\ ws_senders = 0
    /\ ws_receivers = 0
    /\ ws_calls = 0
    /\ ws_refused = TRUE

\* the test of the while loop with <= for <
KeepTryingOnceMore(retry_count) == retry_count <= ws_max_retries

\* wsclient.py:24, the test of the while loop
KeepTrying(retry_count) == retry_count < ws_max_retries

\* wsclient.py:33, the sleep after the failed attempt number retry_count
RetryDelay(retry_count) == ws_retry_interval

\* wsclient.py:22-23: connect is called, by start(), by handle_send_failure (once
\* a sender task exists) or by the application again.
connect ==
    /\ ws_pc = "idle"
    /\ ws_calls < MaxWsCalls
    /\ ws_calls' = ws_calls + 1
    /\ ws_pc' = "connecting"
    /\ ws_retry_count' = 0
    /\ ws_attempts' = 0
    /\ ws_delays' = <<>>
    /\ UNCHANGED <<ws_max_retries, ws_retry_interval, ws_connected, ws_websocket,
                   ws_result, ws_senders, ws_receivers, ws_refused>>

\* wsclient.py:24-35: one test of the while loop and what follows it: an attempt
\* that succeeds ("ok"), fails with OSError or WebSocketException ("refused") or
\* raises anything else ("error"), or the end of the loop and lines 34-35.
connect_step(outcome) ==
    /\ ws_pc = "connecting"
    /\ IF KeepTrying(ws_retry_count)
       THEN /\ ws_attempts' = ws_attempts + 1
            /\ ws_refused' = (ws_refused /\ outcome = "refused")
            /\ CASE outcome = "ok" ->
                      /\ ws_websocket' = ws_calls
                      /\ ws_connected' = TRUE
                      /\ ws_senders' = ws_senders + 1
                      /\ ws_receivers' = ws_receivers + 1
                      /\ ws_result' = "returned"
                      /\ ws_pc' = "idle"
                      /\ UNCHANGED <<ws_retry_count, ws_delays>>
                 [] outcome = "refused" ->
                      /\ ws_retry_count' = ws_retry_count + 1
                      /\ ws_delays' = Append(ws_delays, RetryDelay(ws_retry_count + 1))
                      /\ UNCHANGED <<ws_websocket, ws_connected, ws_senders,
                                     ws_receivers, ws_result, ws_pc>>
                 [] OTHER ->
                      /\ ws_result' = "Exception"
                      /\ ws_pc' = "idle"
                      /\ UNCHANGED <<ws_websocket, ws_connected, ws_senders,
                                     ws_receivers, ws_retry_count, ws_delays>>
       ELSE /\ ws_result' = IF ~ws_connected THEN "ConnectionError" ELSE "returned"
            /\ ws_pc' = "idle"
            /\ UNCHANGED <<ws_attempts, ws_refused, ws_websocket, ws_connected,
                           ws_senders, ws_receivers, ws_retry_count, ws_delays>>
    /\ UNCHANGED <<ws_max_retries, ws_retry_interval, ws_calls>>

ConnectStep == \E outcome \in {"ok", "refused", "error"} : connect_step(outcome)

(***************************************************************************)
(* EventHook (event_hooks.py:8-84)                                         *)
(***************************************************************************)

Listeners == {"A", "B"}
Topics == {"blocks", "other"}
RequestIds == {"42"}
Groups == {"g1", "g2"}

\* the keys a listener can be registered under: "*" is allowed in every place
Keys == {<<"blocks", "*", "*">>, <<"*", "*", "*">>, <<"blocks", "42", "*">>,
         <<"blocks", "*", "g1">>, <<"*", "42", "g1">>}

NoNotify == [topic |-> None, request_id |-> None, group |-> None]

\* event_hooks.py:11-12
InitEH ==
    /\ eh_listeners = <<>>
    /\ eh_notified = NoNotify
    /\ eh_calls = <<>>
    /\ eh_escaped = FALSE
    /\ eh_error = FALSE
    /\ eh_subs = 0
    /\ eh_registered = <<>>

\* position of key in the dict, 0 if absent
KeyIndex(key) ==
    IF \E i \in DOMAIN eh_listeners : eh_listeners[i].key = key
    THEN CHOOSE i \in DOMAIN eh_listeners : eh_listeners[i].key = key
    ELSE 0

\* event_hooks.py:29-33
Matches(key, topic, request_id, group) ==
    /\ (key[1] = topic \/ key[1] = "*")
    /\ (key[2] = request_id \/ key[2] = "*")
    /\ (key[3] = group \/ key[3] = "*")

\* event_hooks.py:27-35, over the entries from position i on
RECURSIVE get_listeners(_, _, _, _)
get_listeners(i, topic, request_id, group) ==
    IF i > Len(eh_listeners) THEN <<>>
    ELSE (IF Matches(eh_listeners[i].key, topic, request_id, group)
          THEN eh_listeners[i].lst ELSE <<>>)
         \o get_listeners(i + 1, topic, request_id, group)

\* event_hooks.py:83-84: the listeners are called in order; the first one that
\* raises ends the loop. The result is the sequence of the listeners called.
RECURSIVE CallEach(_)
CallEach(listeners) ==
    IF listeners = <<>> THEN <<>>
    ELSE IF Head(listeners) \in eh_raising THEN <<Head(listeners)>>
    ELSE <<Head(listeners)>> \o CallEach(Tail(listeners))

\* list.remove: the sequence without the first occurrence of x
RemoveFirst(seq, x) ==
    LET i == CHOOSE j \in DOMAIN seq :
                 seq[j] = x /\ \A k \in 1..(j - 1) : seq[k] # x
    IN  SubSeq(seq, 1, i - 1) \o SubSeq(seq, i + 1, Len(seq))

\* event_hooks.py:37-51
subscribe(listener, key) ==
    /\ eh_subs < MaxEhSubs
    /\ eh_subs' = eh_subs + 1
    /\ eh_listeners' =
          IF KeyIndex(key) = 0
          THEN Append(eh_listeners, [key |-> key, lst |-> <<listener>>])
          ELSE [eh_listeners EXCEPT ![KeyIndex(key)].lst = Append(@, listener)]
    /\ eh_notified' = NoNotify
    /\ eh_calls' = <<>>
    /\ eh_escaped' = FALSE
    /\ eh_registered' = Append(eh_registered, [listener |-> listener, key |-> key])
    /\ UNCHANGED <<eh_raising, eh_error>>

Subscribe == \E listener \in Listeners, key \in Keys : subscribe(listener, key)

\* the unsubscribe that leaves a key whose list became empty in the dict
KeepEmptyKey(table, i) == table

\* event_hooks.py:67-68
DeleteEmptyKey(table, i) ==
    IF table[i].lst = <<>>
    THEN SubSeq(table, 1, i - 1) \o SubSeq(table, i + 1, Len(table))
    ELSE table

\* event_hooks.py:53-68
unsubscribe(listener, key) ==
    LET i == KeyIndex(key) IN
    /\ IF i = 0
       THEN /\ eh_error' = FALSE
            /\ UNCHANGED <<eh_listeners, eh_registered>>
       ELSE IF \E j \in DOMAIN eh_listeners[i].lst : eh_listeners[i].lst[j] = listener
       THEN /\ eh_error' = FALSE
            /\ eh_listeners' =
                  DeleteEmptyKey(
                     [eh_listeners EXCEPT ![i].lst = RemoveFirst(@, listener)], i)
            /\ eh_registered' =
                  RemoveFirst(eh_registered, [listener |-> listener, key |-> key])
       ELSE /\ eh_error' = TRUE
            /\ UNCHANGED <<eh_listeners, eh_registered>>
    /\ eh_notified' = NoNotify
    /\ eh_calls' = <<>>
    /\ eh_escaped' = FALSE
    /\ UNCHANGED <<eh_raising, eh_subs>>

Unsubscribe == \E listener \in Listeners, key \in Keys : unsubscribe(listener, key)

\* event_hooks.py:70-84
notify(topic, request_id, group) ==
    LET listeners == get_listeners(1, topic, request_id, group) IN
    /\ eh_notified' = [topic |-> topic, request_id |-> request_id, group |-> group]
    /\ eh_calls' = CallEach(listeners)
    /\ eh_escaped' = (\E j \in DOMAIN listeners : listeners[j] \in eh_raising)
    /\ UNCHANGED <<eh_listeners, eh_raising, eh_error, eh_subs, eh_registered>>

Notify ==
    \E topic \in Topics, request_id \in RequestIds \cup {"*"}, group \in Groups :
        notify(topic, request_id, group)

(***************************************************************************)
(* WebSocketTransport.receive, connect and _ensure_connection              *)
(* (transport.py:96-184, 208-222)                                          *)
(***************************************************************************)

\* transport.py:71-94
InitTR ==
    /\ tr_connection = "none"
    /\ tr_connecting = 0
    /\ tr_history = <<>>
    /\ tr_ops = <<>>

\* One call on the transport: its name, whether it did what it is for (connect
\* and reconnect: entered connect()'s loop; close: closed an open connection),
\* and the exception it raised.
Op(name, acted, raised) == [op |-> name, acted |-> acted, raised |-> raised]

Record(ops, o) == IF Len(ops) < 2 THEN Append(ops, o) ELSE <<ops[2], o>>

\* What `await self.connection.recv()` and json.loads do in one receive():
\* a message arrives, the timeout expires (TimeoutError), the peer closes the
\* connection cleanly (ConnectionClosedOK) or abnormally (ConnectionClosedError),
\* the socket fails (OSError).
RecvEvents == {"message", "timeout", "closed_ok", "closed_error", "os_error"}

\* transport.py:210-222: how receive() ends for each event: it returns the
\* message, or one of the except clauses logs and receive() returns None.
ReceiveResult(event) ==
    CASE event = "message" -> "message"
      [] event = "closed_ok" -> "None"
      [] event = "timeout" -> "None"
      [] event = "closed_error" -> "None"
      [] event = "os_error" -> "None"

\* transport.py:113-115: connect() enters the `async for` loop over
\* websockets.connect only when self.connection is None.
EntersLoop(connection) == connection = "none"

\* transport.py:96-172, connect(): with no connection it enters the loop, which
\* it does not leave; with a connection, open or closed, it returns at once.
transport_connect ==
    /\ EntersLoop(tr_connection) => tr_connecting < MaxLoops
    /\ tr_connecting' = IF EntersLoop(tr_connection) THEN tr_connecting + 1 ELSE tr_connecting
    /\ tr_ops' = Record(tr_ops, Op("connect", EntersLoop(tr_connection), None))
    /\ UNCHANGED <<tr_connection, tr_history>>

\* transport.py:115-124 and the iterator of websockets.connect: a pass of a
\* loop assigns the connection the iterator made (made = TRUE), and the iterator
\* closes the connection it made when the body of the loop is done
\* (made = FALSE).  One loop closes its connection before it makes the next.
connect_loop(made) ==
    /\ tr_connecting > 0
    /\ IF made THEN tr_connecting > 1 \/ tr_connection # "open" ELSE tr_connection = "open"
    /\ tr_connection' = IF made THEN "open" ELSE "closed"
    /\ UNCHANGED <<tr_connecting, tr_history, tr_ops>>

ConnectLoop == \E made \in BOOLEAN : connect_loop(made)

\* transport.py:224-227: close() closes an open connection and leaves
\* self.connection assigned.
close ==
    /\ tr_connection' = IF tr_connection = "open" THEN "closed" ELSE tr_connection
    /\ tr_ops' = Record(tr_ops, Op("close", tr_connection = "open", None))
    /\ UNCHANGED <<tr_connecting, tr_history>>

\* transport.py:174-179: with no connection reconnect() does nothing; with one,
\* it awaits connection.close(reason=...), whose exception nothing catches, then
\* sets self.connection to None and awaits connect().
reconnect(close_raises) ==
    IF tr_connection = "none"
    THEN /\ tr_ops' = Record(tr_ops, Op("reconnect", FALSE, None))
         /\ UNCHANGED <<tr_connection, tr_connecting, tr_history>>
    ELSE IF close_raises
    THEN /\ tr_ops' = Record(tr_ops, Op("reconnect", FALSE, "Exception"))
         /\ UNCHANGED <<tr_connection, tr_connecting, tr_history>>
    ELSE /\ tr_connecting < MaxLoops
         /\ tr_connection' = "none"
         /\ tr_connecting' = tr_connecting + 1
         /\ tr_ops' = Record(tr_ops, Op("reconnect", TRUE, None))
         /\ UNCHANGED tr_history

Reconnect == \E close_raises \in BOOLEAN : reconnect(close_raises)

\* transport.py:181-184, _ensure_connection(): what self.connection is when it
\* returns.  With no connection it awaits connect(), which does not leave its
\* loop.  With a closed connection it awaits connect(), which returns None at
\* once (transport.py:113, self.connection is not None), and assigns that None.
\* With an open connection it does nothing.
ensure_connection(connection) ==
    IF connection = "none" THEN "no return"
    ELSE IF connection = "closed" THEN "none"
    ELSE connection

\* transport.py:208-222 with _ensure_connection (181-184).  With no connection,
\* _ensure_connection awaits connect(), which stays in its loop.  With a closed
\* connection, connect() returns None at once (self.connection is not None),
\* _ensure_connection assigns that None, and self.connection.recv raises
\* AttributeError, which no except clause of receive() names.
receive(event) ==
    /\ Len(tr_history) < MaxReceives
    /\ tr_ops' = Record(tr_ops, Op("receive", FALSE, None))
    /\ CASE tr_connection = "none" ->
              /\ tr_connecting < MaxLoops
              /\ tr_connecting' = tr_connecting + 1
              /\ tr_history' = Append(tr_history,
                                      [event |-> "no_connection", result |-> "no return",
                                       ensured |-> ensure_connection(tr_connection)])
              /\ UNCHANGED tr_connection
         [] tr_connection = "closed" ->
              /\ tr_connection' = ensure_connection(tr_connection)
              /\ tr_history' = Append(tr_history,
                                      [event |-> "no_connection", result |-> "AttributeError",
                                       ensured |-> ensure_connection(tr_connection)])
              /\ UNCHANGED tr_connecting
         [] OTHER ->
              /\ tr_connection' = IF event \in {"closed_ok", "closed_error", "os_error"}
                                  THEN "closed" ELSE tr_connection
              /\ tr_history' = Append(tr_history,
                                      [event |-> event, result |-> ReceiveResult(event),
                                       ensured |-> ensure_connection(tr_connection)])
              /\ UNCHANGED tr_connecting

TransportReceive == \E event \in RecvEvents : receive(event)

(***************************************************************************)
(* The sender and receiver tasks of AsyncWebsocketClient                   *)
(* (wsclient.py:37-69, 85-90)                                              *)
(***************************************************************************)

\* wsclient.py:11-20
InitWC ==
    /\ wc_send_queue = <<>>
    /\ wc_enqueued = 0
    /\ wc_file = <<>>
    /\ wc_websocket = 0
    /\ wc_state = <<>>
    /\ wc_senders = <<>>
    /\ wc_receivers = <<>>
    /\ wc_callbacks = {}
    /\ wc_wire = <<>>
    /\ wc_arrived = 0
    /\ wc_raised = FALSE

\* a sender task at the top of its while loop (wsclient.py:38)
AtLoop == [pc |-> "loop", msg |-> 0, ws |-> 0]

\* wsclient.py:67-73
persist_send_queue(queue, file) == IF queue = <<>> THEN file ELSE queue

\* wsclient.py:26-30, a websockets.connect that succeeded: the connection is
\* assigned to self.websocket and a sender task and a receiver task are created.
Connected(senders) ==
    /\ Len(wc_state) < MaxConnections
    /\ wc_state' = Append(wc_state, "open")
    /\ wc_websocket' = Len(wc_state) + 1
    /\ wc_senders' = Append(senders, AtLoop)
    /\ wc_receivers' = Append(wc_receivers, "running")

\* wsclient.py:88-90: start() of a client with no persisted queue, whose connect()
\* succeeds.
ws_start ==
    /\ wc_websocket = 0
    /\ Connected(wc_senders)
    /\ UNCHANGED <<wc_send_queue, wc_enqueued, wc_file, wc_callbacks, wc_wire,
                   wc_arrived, wc_raised>>

\* wsclient.py:85-86; every message is enqueued with a callback and a topic of
\* its own
enqueue_message ==
    /\ wc_enqueued < MaxWcMsgs
    /\ wc_enqueued' = wc_enqueued + 1
    /\ wc_send_queue' = Append(wc_send_queue, wc_enqueued + 1)
    /\ UNCHANGED <<wc_file, wc_websocket, wc_state, wc_senders, wc_receivers,
                   wc_callbacks, wc_wire, wc_arrived, wc_raised>>

\* The connection k starts closing (the peer sent a close frame, or the link
\* failed), and the closing ends.  recv() on a closed connection raises
\* ConnectionClosed, which receiver does not catch: the receiver task that was
\* reading the connection ends.
connection_closing(k) ==
    /\ wc_state[k] = "open"
    /\ wc_state' = [wc_state EXCEPT ![k] = "closing"]
    /\ UNCHANGED <<wc_send_queue, wc_enqueued, wc_file, wc_websocket, wc_senders,
                   wc_receivers, wc_callbacks, wc_wire, wc_arrived, wc_raised>>

connection_closed(k) ==
    /\ wc_state[k] = "closing"
    /\ wc_state' = [wc_state EXCEPT ![k] = "closed"]
    /\ wc_receivers' = [wc_receivers EXCEPT ![k] = "ended"]
    /\ UNCHANGED <<wc_send_queue, wc_enqueued, wc_file, wc_websocket, wc_senders,
                   wc_callbacks, wc_wire, wc_arrived, wc_raised>>

ConnectionEvent ==
    \E k \in DOMAIN wc_state : connection_closing(k) \/ connection_closed(k)

\* wsclient.py:62-65 up to the await of connect(): the queue is persisted and the
\* message put back at the head.
handle_send_failure(i, queue, message) ==
    /\ wc_file' = persist_send_queue(queue, wc_file)
    /\ wc_send_queue' = <<message>> \o queue
    /\ wc_senders' = [wc_senders EXCEPT ![i] = [pc |-> "connecting", msg |-> 0, ws |-> 0]]

\* wsclient.py:38-49, one pass of the loop of sender task i on a queue that is
\* not empty, up to its first suspension.  send() on an open connection writes
\* the message before it suspends; on a closing connection it waits for the
\* closing to end; on a closed connection it raises ConnectionClosed at once.
sender(i) ==
    /\ wc_senders[i].pc = "loop"
    /\ wc_send_queue # <<>>
    /\ LET message == Head(wc_send_queue)
           state == wc_state[wc_websocket]
       IN  CASE state = "open" ->
                   /\ wc_send_queue' = Tail(wc_send_queue)
                   /\ wc_wire' = Append(wc_wire, message)
                   /\ wc_callbacks' = wc_callbacks \cup {message}
                   /\ UNCHANGED <<wc_senders, wc_file>>
             [] state = "closing" ->
                   /\ wc_send_queue' = Tail(wc_send_queue)
                   /\ wc_senders' = [wc_senders EXCEPT ![i] =
                                        [pc |-> "sending", msg |-> message,
                                         ws |-> wc_websocket]]
                   /\ UNCHANGED <<wc_wire, wc_callbacks, wc_file>>
             [] OTHER ->
                   /\ handle_send_failure(i, Tail(wc_send_queue), message)
                   /\ UNCHANGED <<wc_wire, wc_callbacks>>
    /\ UNCHANGED <<wc_enqueued, wc_websocket, wc_state, wc_receivers, wc_arrived,
                   wc_raised>>

\* wsclient.py:48-49: the send() that sender task i waits in raises
\* ConnectionClosed when the closing of its connection has ended.
send_fails(i) ==
    /\ wc_senders[i].pc = "sending"
    /\ wc_state[wc_senders[i].ws] = "closed"
    /\ handle_send_failure(i, wc_send_queue, wc_senders[i].msg)
    /\ UNCHANGED <<wc_enqueued, wc_websocket, wc_state, wc_receivers, wc_callbacks,
                   wc_wire, wc_arrived, wc_raised>>

\* wsclient.py:65 and 22-35: the connect() that sender task i awaits in
\* handle_send_failure ends.  Either an attempt succeeded, or every attempt
\* failed: self.connected is still True from the first connection, so connect()
\* returns without raising and the sender goes on with its loop.  A connect()
\* needs network input to end, and a send() whose connection has closed is
\* already scheduled to resume: it resumes first.
reconnected(i, ok) ==
    /\ wc_senders[i].pc = "connecting"
    /\ \A j \in DOMAIN wc_senders :
          wc_senders[j].pc = "sending" => wc_state[wc_senders[j].ws] # "closed"
    /\ IF ok
       THEN Connected([wc_senders EXCEPT ![i] = AtLoop])
       ELSE /\ wc_senders' = [wc_senders EXCEPT ![i] = AtLoop]
            /\ UNCHANGED <<wc_state, wc_websocket, wc_receivers>>
    /\ UNCHANGED <<wc_send_queue, wc_enqueued, wc_file, wc_callbacks, wc_wire,
                   wc_arrived, wc_raised>>

Sender ==
    \E i \in DOMAIN wc_senders :
        \/ sender(i)
        \/ send_fails(i)
        \/ \E ok \in BOOLEAN : reconnected(i, ok)

\* wsclient.py:51-60, one pass of the loop of the receiver task created with
\* connection k: a message on `topic` is read; the callback registered for the
\* topic is popped and called, and an exception it raises leaves the loop and
\* ends the task; a message on a topic without callback goes to receive_queue.
receiver(k, topic, raises) ==
    /\ wc_receivers[k] = "running"
    /\ wc_websocket = k
    /\ wc_state[k] = "open"
    /\ wc_arrived < MaxArrivals
    /\ wc_arrived' = wc_arrived + 1
    /\ wc_callbacks' = wc_callbacks \ {topic}
    /\ IF topic \in wc_callbacks /\ raises
       THEN /\ wc_receivers' = [wc_receivers EXCEPT ![k] = "ended"]
            /\ wc_raised' = TRUE
       ELSE UNCHANGED <<wc_receivers, wc_raised>>
    /\ UNCHANGED <<wc_send_queue, wc_enqueued, wc_file, wc_websocket, wc_state,
                   wc_senders, wc_wire>>

Receiver ==
    \E k \in DOMAIN wc_receivers, topic \in 1..MaxWcMsgs, raises \in BOOLEAN :
        receiver(k, topic, raises)

(***************************************************************************)
(* The specifications.                                                     *)
(***************************************************************************)

\* the components a specification does not exercise, as constructed
InitOthers ==
    /\ InitWS
    /\ ws_max_retries = 1
    /\ ws_retry_interval = 5
    /\ InitEH
    /\ eh_raising = {}
    /\ InitTR
    /\ InitWC

(***************************************************************************)
(* The send side of NetworkManager as a specification.                     *)
(***************************************************************************)

InitSend ==
    /\ InitNM
    /\ stub \in {"ok", "retryable", "any"}
    /\ InitRPC
    /\ auto_reconnect = TRUE
    /\ InitOthers

NextSend ==
    \/ start /\ UNCHANGED notNM
    \/ Tick /\ UNCHANGED notNM
    \/ SendData /\ UNCHANGED notNM
    \/ process_send_queue /\ UNCHANGED notNM
    \/ TransportSend /\ UNCHANGED notNM

SpecSend == InitSend /\ [][NextSend]_vars

\* call_later runs every scheduled iteration, and a transport.send that was
\* awaited returns or raises.
FairSpecSend ==
    /\ SpecSend
    /\ WF_vars(start /\ UNCHANGED notNM)
    /\ WF_vars(process_send_queue /\ UNCHANGED notNM)
    /\ WF_vars(TransportSend /\ UNCHANGED notNM)

(***************************************************************************)
(* The receive side of NetworkManager as a specification.                  *)
(***************************************************************************)

InitRecv ==
    /\ InitNM
    /\ stub = "ok"
    /\ InitRPC
    /\ auto_reconnect = TRUE
    /\ InitOthers

NextRecv ==
    \/ start /\ UNCHANGED notNM
    \/ Tick /\ UNCHANGED notNM
    \/ RegisterRequest /\ UNCHANGED notNM
    \/ ReceiveAny /\ UNCHANGED notNM
    \/ process_receive_queue /\ UNCHANGED notNM

SpecRecv == InitRecv /\ [][NextRecv]_vars

(***************************************************************************)
(* The subscriptions of NetworkManager as a specification: callbacks are   *)
(* subscribed and unsubscribed while messages published on topics arrive.  *)
(***************************************************************************)

InitSubs ==
    /\ InitNM
    /\ stub = "ok"
    /\ InitRPC
    /\ auto_reconnect = TRUE
    /\ InitOthers

NextSubs ==
    \/ start /\ UNCHANGED notNM
    \/ NmSubscribe /\ UNCHANGED notNM
    \/ NmUnsubscribe /\ UNCHANGED notNM
    \/ ReceivePublished /\ UNCHANGED notNM
    \/ process_receive_queue /\ UNCHANGED notNM

SpecSubs == InitSubs /\ [][NextSubs]_vars

(***************************************************************************)
(* The subscriptions table shared by the application thread, which calls   *)
(* subscribe and unsubscribe, and the thread of the manager's event loop,  *)
(* which notifies.                                                         *)
(***************************************************************************)

InitThreads ==
    /\ InitNM
    /\ stub = "ok"
    /\ InitRPC
    /\ auto_reconnect = TRUE
    /\ InitOthers

NextThreads ==
    \/ NmSubscribe /\ UNCHANGED notNM
    \/ NmUnsubscribe /\ UNCHANGED notNM
    \/ NotifyBegin /\ UNCHANGED notNM
    \/ notify_step /\ UNCHANGED notNM

SpecThreads == InitThreads /\ [][NextThreads]_vars

(***************************************************************************)
(* _notify_subscribers on subscription lists of any content: the           *)
(* application subscribes callables and other values, and no other thread  *)
(* touches the table while the notify path iterates.                       *)
(***************************************************************************)

InitNotify ==
    /\ InitNM
    /\ stub = "ok"
    /\ InitRPC
    /\ auto_reconnect = TRUE
    /\ InitOthers

NextNotify ==
    \/ it_topic = None /\ NmSubscribe /\ UNCHANGED notNM
    \/ it_topic = None /\ NmSubscribeNonCallable /\ UNCHANGED notNM
    \/ NotifyBegin /\ UNCHANGED notNM
    \/ notify_step /\ UNCHANGED notNM

SpecNotify == InitNotify /\ [][NextNotify]_vars

(***************************************************************************)
(* The send side of NetworkManager with _process_persistent_data("send")   *)
(* called on it, on a transport whose sends fail with RetryableError.      *)
(***************************************************************************)

InitReplay ==
    /\ InitNM
    /\ stub = "retryable"
    /\ InitRPC
    /\ auto_reconnect = TRUE
    /\ InitOthers

NextReplay ==
    \/ ReplayIdle /\ start /\ UNCHANGED notNM
    \/ Tick /\ UNCHANGED notNM
    \/ ReplayIdle /\ SendData /\ UNCHANGED notNM
    \/ ReplayIdle /\ process_send_queue /\ UNCHANGED notNM
    \/ ReplayIdle /\ TransportSend /\ UNCHANGED notNM
    \/ replay_begin /\ UNCHANGED notNM
    \/ replay_file /\ UNCHANGED notNM

SpecReplay == InitReplay /\ [][NextReplay]_vars

(***************************************************************************)
(* The loops of NetworkManager and cleanup as a specification.             *)
(***************************************************************************)

InitCleanup ==
    /\ InitNM
    /\ stub = "ok"
    /\ InitRPC
    /\ auto_reconnect = TRUE
    /\ InitOthers

NextCleanup ==
    \/ start /\ UNCHANGED notNM
    \/ SendBeforeCleanup /\ UNCHANGED notNM
    \/ process_send_queue /\ UNCHANGED notNM
    \/ TransportSend /\ UNCHANGED notNM
    \/ process_receive_queue /\ UNCHANGED notNM
    \/ Cleanup /\ UNCHANGED notNM

SpecCleanup == InitCleanup /\ [][NextCleanup]_vars

(***************************************************************************)
(* Both queues of NetworkManager as a specification: the send side and the *)
(* receive side run together.                                              *)
(***************************************************************************)

InitQueues ==
    /\ InitNM
    /\ stub \in {"ok", "retryable"}
    /\ InitRPC
    /\ auto_reconnect = TRUE
    /\ InitOthers

NextQueues ==
    \/ start /\ UNCHANGED notNM
    \/ SendData /\ UNCHANGED notNM
    \/ process_send_queue /\ UNCHANGED notNM
    \/ TransportSend /\ UNCHANGED notNM
    \/ ReceiveAny /\ UNCHANGED notNM
    \/ process_receive_queue /\ UNCHANGED notNM

SpecQueues == InitQueues /\ [][NextQueues]_vars

(***************************************************************************)
(* The two processing loops of NetworkManager on a machine whose disk      *)
(* operations may fail.                                                    *)
(***************************************************************************)

InitLoops ==
    /\ InitNM
    /\ stub \in {"ok", "retryable"}
    /\ InitRPC
    /\ auto_reconnect = TRUE
    /\ InitOthers

NextLoops ==
    \/ start /\ UNCHANGED notNM
    \/ SendData /\ UNCHANGED notNM
    \/ process_send_queue /\ UNCHANGED notNM
    \/ TransportSendFaulty /\ UNCHANGED notNM
    \/ ReceiveAny /\ UNCHANGED notNM
    \/ ProcessReceiveQueueFaulty /\ UNCHANGED notNM

SpecLoops == InitLoops /\ [][NextLoops]_vars

(***************************************************************************)
(* rpc_request as a specification.                                         *)
(***************************************************************************)

InitRpcSpec ==
    /\ InitNM
    /\ stub = "ok"
    /\ InitRPC
    /\ auto_reconnect \in BOOLEAN
    /\ InitOthers

NextRpc ==
    \/ RpcCall /\ UNCHANGED notRPC
    \/ RpcSend /\ UNCHANGED notRPC
    \/ RpcRecv /\ UNCHANGED notRPC

SpecRpc == InitRpcSpec /\ [][NextRpc]_vars

(***************************************************************************)
(* AsyncWebsocketClient.connect as a specification.                        *)
(***************************************************************************)

InitWsSpec ==
    /\ InitNM
    /\ stub = "ok"
    /\ InitRPC
    /\ auto_reconnect = TRUE
    /\ InitWS
    /\ ws_max_retries \in 1..MaxWsRetries
    /\ ws_retry_interval \in {1, 5}
    /\ InitEH
    /\ eh_raising = {}
    /\ InitTR
    /\ InitWC

NextWs ==
    \/ connect /\ UNCHANGED notWS
    \/ ConnectStep /\ UNCHANGED notWS

SpecWs == InitWsSpec /\ [][NextWs]_vars

(***************************************************************************)
(* EventHook as a specification: listeners, some of which raise, are       *)
(* subscribed, unsubscribed and notified.                                  *)
(***************************************************************************)

InitEhSpec ==
    /\ InitNM
    /\ stub = "ok"
    /\ InitRPC
    /\ auto_reconnect = TRUE
    /\ InitWS
    /\ ws_max_retries = 1
    /\ ws_retry_interval = 5
    /\ InitEH
    /\ eh_raising \in SUBSET Listeners
    /\ InitTR
    /\ InitWC

NextEh ==
    \/ Subscribe /\ UNCHANGED notEH
    \/ Unsubscribe /\ UNCHANGED notEH
    \/ Notify /\ UNCHANGED notEH

SpecEh == InitEhSpec /\ [][NextEh]_vars

(***************************************************************************)
(* WebSocketTransport.receive as a specification.                          *)
(***************************************************************************)

InitTrSpec ==
    /\ InitNM
    /\ stub = "ok"
    /\ InitRPC
    /\ auto_reconnect = TRUE
    /\ InitOthers

NextTr ==
    \/ transport_connect /\ UNCHANGED notTR
    \/ ConnectLoop /\ UNCHANGED notTR
    \/ close /\ UNCHANGED notTR
    \/ Reconnect /\ UNCHANGED notTR
    \/ TransportReceive /\ UNCHANGED notTR

SpecTr == InitTrSpec /\ [][NextTr]_vars

(***************************************************************************)
(* The tasks of AsyncWebsocketClient as a specification.                   *)
(***************************************************************************)

InitWcSpec ==
    /\ InitNM
    /\ stub = "ok"
    /\ InitRPC
    /\ auto_reconnect = TRUE
    /\ InitOthers

NextWc ==
    \/ ws_start /\ UNCHANGED notWC
    \/ enqueue_message /\ UNCHANGED notWC
    \/ ConnectionEvent /\ UNCHANGED notWC
    \/ Sender /\ UNCHANGED notWC
    \/ Receiver /\ UNCHANGED notWC

SpecWc == InitWcSpec /\ [][NextWc]_vars

(***************************************************************************)
(* Properties of NetworkManager and WebSocketTransport.                    *)
(***************************************************************************)

InMemory(id) == \E i \in DOMAIN send_queue : send_queue[i].request_id = id
OnDisk(id) == \E f \in Glob("send") : f.content.request_id = id
InFlight(id) == send_pc = "sending" /\ inflight.request_id = id
InOrder(n) == [i \in 1..n |-> i]

\* C1: after MaxSends (more than QueueSize) send_data calls on a working
\* transport, the receiving end eventually has observed every message, in the
\* order of the calls, whatever was spilled to disk on the way.
C1_FifoUnderOverflow ==
    (stub = "ok" /\ sends = MaxSends) ~> (wire = InOrder(MaxSends))

\* C2: every message send_data accepted that was neither handed to the transport
\* nor dropped for a FatalError is in the send queue, being sent, or in a file of
\* the storage directory.
C2_NoDataLoss ==
    \A id \in 1..sends :
        \/ id \in Range(wire)
        \/ id \in dropped
        \/ InFlight(id)
        \/ InMemory(id)
        \/ OnDisk(id)

\* C3: with a transport that always fails with RetryableError, once more than
\* QueueSize items were passed to send_data and the loop has processed the
\* in-memory queue, there is one overflow file per item and the queue is empty.
C3_OneFilePerItem ==
    (/\ stub = "retryable"
     /\ sends > QueueSize
     /\ send_pc = "scheduled"
     /\ send_queue = <<>>)
    => Cardinality(Glob("send")) = sends

\* C4: once the manager stopped accepting and the in-memory send queue has
\* emptied, direct acceptance is eventually re-enabled.
C4_AcceptanceReenabled ==
    (~accept_data /\ send_queue = <<>>) ~> accept_data

\* C5: an iteration of _process_receive_queue that found the receive queue empty
\* is never left suspended in _process_persistent_data.
C5_ReceiveIterationCompletes == recv_pc # "blocked"

\* C6: the callback registered for a request id is triggered at most once,
\* whatever responses arrive.
C6_CallbackAtMostOnce ==
    \A id \in DOMAIN callbacks : triggered[id] <= 1

\* C9: a send whose first attempt raised a non-retryable exception ended with
\* FatalError after that one attempt and no sleep; a message dropped for a
\* FatalError is not in the queue, not in flight, not on disk and not on the wire.
C9_FatalShortCircuit ==
    /\ last_send.first_exc = "Exception" =>
          /\ last_send.attempts = 1
          /\ last_send.sleeps = 0
          /\ last_send.outcome = "FatalError"
          /\ last_send.request_id \in dropped
    /\ \A id \in dropped :
          ~InMemory(id) /\ ~InFlight(id) /\ ~OnDisk(id) /\ id \notin Range(wire)

\* a send that ended with FatalError at its first attempt, with the send loop
\* scheduled again and the next message still queued
C9_Witness ==
    /\ last_send.first_exc = "Exception"
    /\ last_send.outcome = "FatalError"
    /\ last_send.request_id \in dropped
    /\ send_pc = "scheduled"
    /\ send_queue # <<>>

(***************************************************************************)
(* Properties of SubstrateProxyInterface.rpc_request.                      *)
(***************************************************************************)

IsPush(m, sub) == m.kind = "push" /\ m.subscription = sub

\* the push messages tagged with the answer's subscription id that arrived
\* after the answer
PushesAfterAnswer ==
    SelectSeq(SubSeq(rpc_log, rpc_answer.n + 1, Len(rpc_log)),
              LAMBDA m : IsPush(m, rpc_answer.result))

ResponseQueued ==
    \E i \in DOMAIN rpc_queue :
        rpc_queue[i].kind = "response" /\ rpc_queue[i].id = rpc_req

NonDecreasing(seq) == \A k \in 1..(Len(seq) - 1) : seq[k] <= seq[k + 1]

\* C8: while every connection attempt fails with a retryable error, a connect
\* call never makes more than max_retries attempts; when it ends it has made
\* exactly max_retries attempts and raises ConnectionError; and the delays
\* between its attempts are non-decreasing.
C8_RetryBound ==
    (ws_refused /\ ws_calls > 0) =>
        /\ ws_attempts <= ws_max_retries
        /\ NonDecreasing(ws_delays)
        /\ Len(ws_delays) = ws_attempts
        /\ ws_pc = "idle" =>
              /\ ws_attempts = ws_max_retries
              /\ ws_result = "ConnectionError"

\* a connect call with max_retries > 1 that ended after all its attempts failed
C8_Witness ==
    /\ ws_refused
    /\ ws_calls > 0
    /\ ws_pc = "idle"
    /\ ws_max_retries > 1
    /\ ws_attempts = ws_max_retries
    /\ ws_result = "ConnectionError"

(***************************************************************************)
(* Properties of EventHook.                                                *)
(***************************************************************************)

Count(seq, x) == Cardinality({j \in DOMAIN seq : seq[j] = x})

\* the registrations of listener under keys that match the last notify
RECURSIVE MatchingRegistrations(_, _)
MatchingRegistrations(i, listener) ==
    IF i > Len(eh_listeners) THEN 0
    ELSE (IF /\ eh_listeners[i].key[1] \in {eh_notified.topic, "*"}
             /\ eh_listeners[i].key[2] \in {eh_notified.request_id, "*"}
             /\ eh_listeners[i].key[3] \in {eh_notified.group, "*"}
          THEN Count(eh_listeners[i].lst, listener) ELSE 0)
         + MatchingRegistrations(i + 1, listener)

\* C10: after notify(topic, request_id, group), every listener has been called
\* once for each of its registrations under a key (t, r, g) with t topic or
\* "*", r request_id or "*", g group or "*", and not otherwise: a listener
\* with no such registration has not been called.
C10_Routing ==
    eh_notified # NoNotify =>
        \A listener \in Listeners :
            Count(eh_calls, listener) = MatchingRegistrations(1, listener)

\* the same, for a notify that no exception left
C10_RoutingWithoutException ==
    (eh_notified # NoNotify /\ ~eh_escaped) =>
        \A listener \in Listeners :
            Count(eh_calls, listener) = MatchingRegistrations(1, listener)

\* a notify that called one listener and not another registered under a
\* matching key
C10_Witness ==
    /\ eh_notified # NoNotify
    /\ \E l1, l2 \in Listeners :
          /\ Count(eh_calls, l1) = 1
          /\ MatchingRegistrations(1, l2) = 1
          /\ Count(eh_calls, l2) = 0

\* the registrations in force that the last notify matches, in subscribe order
MatchingInOrder ==
    SelectSeq(eh_registered,
              LAMBDA r : /\ r.key[1] \in {eh_notified.topic, "*"}
                         /\ r.key[2] \in {eh_notified.request_id, "*"}
                         /\ r.key[3] \in {eh_notified.group, "*"})

\* C11: a notify calls every matching listener, also after one of them raised,
\* and no exception leaves it.
C11_ListenerIsolation ==
    eh_notified # NoNotify =>
        /\ ~eh_escaped
        /\ Len(eh_calls) = Len(MatchingInOrder)

\* a notify whose first matching listener raised, with a second one matching
C11_Witness ==
    /\ eh_notified # NoNotify
    /\ Len(MatchingInOrder) = 2
    /\ MatchingInOrder[1].listener \in eh_raising
    /\ Len(eh_calls) = 1

\* C12: a notify that no exception left called the matching listeners in the
\* order of their subscribe calls, whatever keys they are registered under.
C12_RegistrationOrder ==
    (eh_notified # NoNotify /\ ~eh_escaped) =>
        /\ Len(eh_calls) = Len(MatchingInOrder)
        /\ \A k \in 1..Len(eh_calls) : eh_calls[k] = MatchingInOrder[k].listener

\* C12 for the listeners of one key: a notify that no exception left called the
\* listeners registered under each matching key in the order of their subscribe
\* calls
C12_OrderWithinKey ==
    (eh_notified # NoNotify /\ ~eh_escaped) =>
        \A i \in DOMAIN eh_listeners :
            LET ofKey == SelectSeq(eh_registered, LAMBDA r : r.key = eh_listeners[i].key)
            IN  /\ Len(ofKey) = Len(eh_listeners[i].lst)
                /\ \A k \in 1..Len(ofKey) : ofKey[k].listener = eh_listeners[i].lst[k]

\* three matching registrations, the first and third under one key, the second
\* under another, all called
C12_Witness ==
    /\ eh_notified # NoNotify
    /\ ~eh_escaped
    /\ Len(eh_calls) = 3
    /\ Len(MatchingInOrder) = 3
    /\ MatchingInOrder[1].key = MatchingInOrder[3].key
    /\ MatchingInOrder[1].key # MatchingInOrder[2].key

\* C14: no key of the listener table maps to an empty list and no key occurs
\* twice; the list of each key holds the listeners subscribed under exactly that
\* key and not unsubscribed from it since, so an unsubscribe took its listener
\* from that key only; a key with no such listener is not in the table.
C14_NoEmptyKey ==
    /\ \A i \in DOMAIN eh_listeners : eh_listeners[i].lst # <<>>
    /\ \A i, j \in DOMAIN eh_listeners :
          eh_listeners[i].key = eh_listeners[j].key => i = j
    /\ \A key \in Keys :
          LET ofKey == SelectSeq(eh_registered, LAMBDA r : r.key = key)
          IN  IF ofKey = <<>> THEN KeyIndex(key) = 0
              ELSE /\ KeyIndex(key) # 0
                   /\ eh_listeners[KeyIndex(key)].lst =
                         [k \in 1..Len(ofKey) |-> ofKey[k].listener]

\* the last listener of a key was unsubscribed while another key keeps the same
\* listener
C14_Witness ==
    /\ eh_subs = 2
    /\ Len(eh_listeners) = 1
    /\ Len(eh_registered) = 1
    /\ ~eh_error

(***************************************************************************)
(* Properties of the subscriptions of NetworkManager.                      *)
(***************************************************************************)

\* C13: a callback whose unsubscribe(topic, callback) returned, and that was not
\* subscribed to the topic again, is not in the topic's list, and the last
\* message on a topic triggered no such callback.
C13_UnsubscribeRemoves ==
    /\ \A p \in unsubscribed :
          p[1] \in DOMAIN subscriptions =>
             \A j \in DOMAIN subscriptions[p[1]] : subscriptions[p[1]][j] # p[2]
    /\ \A j \in DOMAIN sub_calls : <<sub_topic, sub_calls[j]>> \notin unsubscribed

\* a message on a topic triggered a callback unsubscribed from the topic
C13_Witness ==
    /\ sub_calls # <<>>
    /\ <<sub_topic, sub_calls[1]>> \in unsubscribed

(***************************************************************************)
(* Properties of NetworkManager.cleanup.                                   *)
(***************************************************************************)

\* C15: once cleanup() has completed, no iteration of _process_send_queue or
\* _process_receive_queue of the loops started by start() runs.
C15_LoopsCancelled == ~ran_after_cleanup

\* the same for a cleanup() that found the tasks of start() not done
C15_CancelledWhilePending ==
    (send_task = "cancelled" /\ receive_task = "cancelled") => ~ran_after_cleanup

\* an iteration ran after a cleanup() that found both tasks of start() done
C15_Witness ==
    /\ cleaned = "started"
    /\ send_task = "done"
    /\ receive_task = "done"
    /\ ran_after_cleanup

(***************************************************************************)
(* Properties of the queues of NetworkManager.                             *)
(***************************************************************************)

\* C16: the send queue and the receive queue never hold more than queue_size
\* items (queue_size >= 1), whatever send_data, the flush to disk, the replay
\* from disk and the two loops have done.
C16_QueueCapacity ==
    /\ Len(send_queue) <= QueueSize
    /\ Len(receive_queue) <= QueueSize

\* send_data has flushed a full send queue to disk, the send queue is empty again
\* and the receive queue is full
C16_Witness ==
    /\ ~accept_data
    /\ Glob("send") # {}
    /\ send_queue = <<>>
    /\ Len(receive_queue) = QueueSize

(***************************************************************************)
(* Properties of the sends of SubstrateProxyInterface.rpc_request.         *)
(***************************************************************************)

\* C17: a call whose send failed on a closed connection reconnects and sends
\* again at most once; after a second failure it raises.
C17_RetryOnce == rpc_retries <= 1

\* a call that sent a third time after two failed sends
C17_Witness ==
    /\ auto_reconnect
    /\ rpc_retries = 2
    /\ rpc_pc = "waiting"
    /\ Len(rpc_payloads) = 3

\* C18: the request ids of the payloads of one interface are strictly
\* increasing, the payloads sent again after a reconnect included.
C18_FreshRequestIds ==
    \A i, j \in DOMAIN rpc_payloads : i < j => rpc_payloads[i] < rpc_payloads[j]

\* three payloads: a call, its retry after a reconnect, and a later call
C18_Witness ==
    /\ Len(rpc_payloads) = 3
    /\ rpc_retries = 0
    /\ \E i \in 1..2 : rpc_payloads[i + 1] = rpc_payloads[i] + 1

\* a message of the queue that matches the request id or the subscription id of
\* the call
Matched(m) ==
    \/ m.kind = "response" /\ m.id = rpc_req
    \/ m.kind = "push" /\ rpc_sub # None /\ m.subscription = rpc_sub

\* C19: while a call waits for its response, no message that matches neither
\* its request id nor its subscription id is in the message queue, and no such
\* message made the call raise.
C19_UnmatchedDropped ==
    /\ rpc_pc = "waiting" => \A i \in DOMAIN rpc_queue : Matched(rpc_queue[i])
    /\ rpc_pc = "raised" =>
          \/ \E i \in DOMAIN rpc_queue :
                /\ rpc_queue[i].kind = "response"
                /\ rpc_queue[i].id = rpc_req
                /\ rpc_queue[i].error
          \/ rpc_payloads # <<>> /\ rpc_payloads[Len(rpc_payloads)] = rpc_req

\* a message that matches neither id is in the queue of a waiting call
C19_Witness ==
    /\ rpc_pc = "waiting"
    /\ \E i \in DOMAIN rpc_queue : ~Matched(rpc_queue[i])

(***************************************************************************)
(* Properties of WebSocketTransport.receive.                               *)
(***************************************************************************)

\* C20: a receive() whose recv timed out or found the connection closed
\* abnormally raised RetryableError, and one that found it closed cleanly
\* returned without an error.
C20_ReceiveErrors ==
    \A k \in DOMAIN tr_history :
        /\ tr_history[k].event \in {"timeout", "closed_error"} =>
              tr_history[k].result = "RetryableError"
        /\ tr_history[k].event = "closed_ok" => tr_history[k].result = "None"

\* a timeout, an abnormal close and a clean close, each met by one receive()
C20_Witness ==
    \E i, j, k \in DOMAIN tr_history :
        /\ tr_history[i].event = "timeout"
        /\ tr_history[j].event = "closed_error"
        /\ tr_history[k].event = "closed_ok"
        /\ tr_history[i].result = tr_history[j].result
        /\ tr_history[j].result = tr_history[k].result

\* C21: a connect() called straight after a close() that closed an open
\* connection enters the connecting loop to establish a new connection.
C21_ConnectAfterClose ==
    (/\ Len(tr_ops) = 2
     /\ tr_ops[1].op = "close"
     /\ tr_ops[1].acted
     /\ tr_ops[2].op = "connect") => tr_ops[2].acted

\* close() on an open connection, then connect()
C21_Witness ==
    /\ Len(tr_ops) = 2
    /\ tr_ops[1].op = "close"
    /\ tr_ops[1].acted
    /\ tr_ops[2].op = "connect"
    /\ tr_connection = "closed"

\* C27: every reconnect() ends by entering connect(), with or without a
\* connection and whether or not closing the connection raised.
C27_ReconnectConnects ==
    \A k \in DOMAIN tr_ops : tr_ops[k].op = "reconnect" => tr_ops[k].acted

\* reconnect() called with no connection, and reconnect() whose close raised
C27_Witness ==
    /\ Len(tr_ops) = 2
    /\ tr_ops[1] = Op("reconnect", FALSE, None)
    /\ tr_ops[2] = Op("reconnect", FALSE, "Exception")

(***************************************************************************)
(* Properties of the overflow and error paths of NetworkManager.           *)
(***************************************************************************)

\* C22: a send_data call made while the send queue is full returns with the
\* send queue empty, accept_data False, and a file in the storage directory for
\* every item that was in the queue and for the new item.
C22_OverflowFlush ==
    [][(accept_data /\ ~accept_data') =>
          /\ send_queue' = <<>>
          /\ \A id \in {send_queue[i].request_id : i \in DOMAIN send_queue} \cup {sends'} :
                \E f \in storage' : f.direction = "send" /\ f.content.request_id = id]_vars

\* the state a send_data call on a full queue returned in
C22_Witness ==
    /\ ~accept_data
    /\ sends = QueueSize + 1
    /\ send_queue = <<>>
    /\ OnDisk(sends)

\* C23: when transport.send ends with RetryableError the popped item is in a
\* file of the storage directory once the iteration is over; when it ends with
\* FatalError the item is dropped and nothing is written; either way the item
\* is not in the in-memory send queue.
C23_SendErrorHandling ==
    [][(last_send' # last_send) =>
          LET id == last_send'.request_id
              queued == \E i \in DOMAIN send_queue' : send_queue'[i].request_id = id
          IN  /\ last_send'.outcome = "RetryableError" =>
                    /\ \E f \in storage' : f.direction = "send" /\ f.content.request_id = id
                    /\ ~queued
              /\ last_send'.outcome = "FatalError" =>
                    /\ storage' = storage
                    /\ id \in dropped'
                    /\ ~queued]_vars

\* a send that ended with RetryableError and was written back, after an earlier
\* one was dropped for a FatalError
C23_Witness ==
    /\ last_send.outcome = "RetryableError"
    /\ OnDisk(last_send.request_id)
    /\ ~InMemory(last_send.request_id)
    /\ dropped # {}
    /\ \A id \in dropped : ~OnDisk(id) /\ ~InMemory(id)

\* C24: once started, neither processing loop is ever left without a next
\* iteration scheduled because of an error in an iteration.
C24_LoopsSurviveErrors == send_pc # "stopped" /\ recv_pc # "stopped"

\* both loops ended by an error: the send loop by a failed write of the item it
\* was persisting, the receive loop by an unreadable persisted file
C24_Witness ==
    /\ send_pc = "stopped"
    /\ last_send.outcome = "RetryableError"
    /\ ~OnDisk(last_send.request_id)
    /\ recv_pc = "stopped"
    /\ Glob("receive") # {}

\* the send loop survives every outcome of transport.send while the disk works
C24_SendLoopSurvivesSendErrors ==
    send_pc \in {"none", "scheduled", "sending"}

C26_StorageRemoved == cleaned # "no" => storage_dir = "removed"

\* cleanup() returned with the directory, and the files in it, still there
C26_Witness ==
    /\ cleaned = "started"
    /\ storage_dir = "exists"
    /\ storage # {}

\* C28: while the notify path iterates over a topic's callback list, the list
\* is the one the iteration began on: no subscribe or unsubscribe changed it.
C28_ListStableWhileIterating ==
    it_topic # None => subscriptions[it_topic] = it_list

\* the list grew under the iteration, which went on to call the new entry
C28_Witness ==
    /\ it_topic # None
    /\ Len(subscriptions[it_topic]) > Len(it_list)
    /\ Len(sub_calls) > Len(it_list)

(***************************************************************************)
(* Properties of the tasks of AsyncWebsocketClient.                        *)
(***************************************************************************)

\* C29: the messages are written to the wire in the order of their
\* enqueue_message calls, each once, whatever sends failed on the way.
C29_WireOrder ==
    \A a, b \in DOMAIN wc_wire : a < b => wc_wire[a] < wc_wire[b]

\* the second message went out before the first one, whose send had failed
C29_Witness ==
    /\ wc_wire = <<2, 1>>
    /\ wc_file # <<>>

\* C30: the receiver task of an open connection is running, also after a
\* callback it called raised.
C30_ReceiverSurvivesCallback ==
    \A k \in DOMAIN wc_state :
        (k = wc_websocket /\ wc_state[k] = "open") => wc_receivers[k] = "running"

\* a callback raised and the connection, still open, has no receiver
C30_Witness ==
    /\ wc_raised
    /\ wc_websocket > 0
    /\ wc_state[wc_websocket] = "open"
    /\ wc_receivers[wc_websocket] = "ended"

(***************************************************************************)
(* Properties of WebSocketTransport._send_with_retries.                    *)
(***************************************************************************)

\* C31: a send that ended with RetryableError, every attempt having failed with
\* a retryable error, made exactly max_retries attempts.
C31_AttemptsBeforeRetryableError ==
    last_send.outcome = "RetryableError" => last_send.attempts = MaxRetries

\* a send that raised RetryableError after max_retries + 1 attempts and
\* max_retries sleeps
C31_Witness ==
    /\ last_send.outcome = "RetryableError"
    /\ last_send.first_exc = "WebSocketException"
    /\ last_send.attempts = MaxRetries + 1
    /\ last_send.sleeps = MaxRetries

\* the number of attempts the code makes before it raises RetryableError
C31_AttemptsAreRetriesPlusOne ==
    last_send.outcome = "RetryableError" => last_send.attempts = MaxRetries + 1

(***************************************************************************)
(* Properties of the callbacks and the replay of NetworkManager.           *)
(***************************************************************************)

\* C32: the callback of every message send_data took with a callback, queued in
\* memory or written to the storage directory, is registered under the
\* message's request id.
C32_CallbackRegistered ==
    /\ \A i \in DOMAIN send_queue :
          send_queue[i].callback # None => send_queue[i].request_id \in DOMAIN callbacks
    /\ \A f \in Glob("send") :
          f.content.callback # None => f.content.request_id \in DOMAIN callbacks

\* a message persisted on the overflow path and one persisted while not
\* accepting, both given with a callback, neither registered
C32_Witness ==
    /\ sends = QueueSize + 2
    /\ \E f, g \in Glob("send") :
          /\ f.content.request_id = QueueSize + 1
          /\ g.content.request_id = QueueSize + 2
          /\ f.content.callback # None
          /\ g.content.callback # None
          /\ f.content.request_id \notin DOMAIN callbacks
          /\ g.content.request_id \notin DOMAIN callbacks

\* the callback of a message that was queued in memory is registered
C32_RegisteredWhenQueued ==
    \A i \in DOMAIN send_queue :
        send_queue[i].callback # None => send_queue[i].request_id \in DOMAIN callbacks

\* C33: the message that re-enters the send path when a persisted send message
\* is replayed has the request_id, data and topic of the persisted message, and
\* the replay of a file leaves the number of undelivered messages unchanged.
C33_ReplayRoundTrip ==
    last_replay # NoReplay =>
        /\ last_replay.new.request_id = last_replay.old.request_id
        /\ last_replay.new.data = last_replay.old.data
        /\ last_replay.new.topic = last_replay.old.topic
        /\ last_replay.after = last_replay.before

\* a replay that gave the message a new request id and lost a message: the new
\* message was written under the name of the file read, and removed with it
C33_Witness ==
    /\ last_replay # NoReplay
    /\ last_replay.new.request_id # last_replay.old.request_id
    /\ last_replay.new.data = AsData(last_replay.old)
    /\ last_replay.after < last_replay.before

\* C34: whenever _ensure_connection has returned, self.connection is an open
\* connection: neither None nor closed.
C34_EnsuredConnectionOpen ==
    \A k \in DOMAIN tr_history :
        tr_history[k].ensured # "no return" => tr_history[k].ensured = "open"

\* a receive() on a closed connection: _ensure_connection returned, with
\* self.connection None
C34_Witness ==
    \E k \in DOMAIN tr_history :
        /\ k > 1
        /\ tr_history[k - 1].event \in {"closed_ok", "closed_error", "os_error"}
        /\ tr_history[k].ensured = "none"
        /\ tr_history[k].result = "AttributeError"

\* C35: _notify_subscribers terminates whatever the topic's list holds: with no
\* other thread changing the list, its loop makes at most one pass per entry
\* of the list it was called on, and every pass leaves fewer entries to visit.
C35_NotifyTerminates ==
    it_topic # None =>
        /\ it_index <= Len(it_list) + 1
        /\ Len(subscriptions[it_topic]) = Len(it_list)

\* The loop has made a pass for every entry of the list it began on, and as
\* many entries as at the beginning are still to visit, an entry that is not
\* callable among them.
C35_Witness ==
    /\ it_topic # None
    /\ it_index = Len(it_list) + 1
    /\ Len(subscriptions[it_topic]) - it_index + 1 >= 1
    /\ \E k \in it_index..Len(subscriptions[it_topic]) :
          ~callable(subscriptions[it_topic][k])
    /\ \A k \in DOMAIN it_list : ~callable(it_list[k])

\* A pass on an entry that is not callable leaves as many entries to visit as
\* there were before it.
C35_PassOnNonCallableKeepsRest ==
    [][(/\ it_topic # None
        /\ it_index <= Len(subscriptions[it_topic])
        /\ ~callable(subscriptions[it_topic][it_index])
        /\ it_index' = it_index + 1)
       => Len(subscriptions'[it_topic]) - it_index' = Len(subscriptions[it_topic]) - it_index]_vars

\* the sender tasks that are running: a sender task leaves its loop on no path
\* (wsclient.py:37-49), so every task created is
RunningSenders == DOMAIN wc_senders

RunningReceivers == {k \in DOMAIN wc_receivers : wc_receivers[k] = "running"}

\* C36: at any time the client has at most one sender task and at most one
\* receiver task running.
C36_OneSenderOneReceiver ==
    /\ Cardinality(RunningSenders) <= 1
    /\ Cardinality(RunningReceivers) <= 1

\* after a send failure and a reconnect that succeeded, the sender task that
\* reconnected and the one the reconnect created are both in the sender loop
C36_Witness ==
    /\ Len(wc_state) = 2
    /\ wc_state[1] = "closed"
    /\ wc_state[2] = "open"
    /\ Cardinality(RunningSenders) = 2
    /\ \A i \in RunningSenders : wc_senders[i].pc = "loop"
    /\ Cardinality(RunningReceivers) = 1

\* C37: a connect call that has ended returned normally only if one of its own
\* attempts succeeded, and raised ConnectionError if all its max_retries
\* attempts failed, on a reconnect as on the first connect.
C37_ReturnsOnlyWhenConnected ==
    (ws_pc = "idle" /\ ws_calls > 0) =>
        /\ ws_result = "returned" => ws_websocket = ws_calls
        /\ ws_retry_count = ws_max_retries => ws_result = "ConnectionError"

\* the second connect call, made after the first one connected, returned
\* normally after all its attempts failed
C37_Witness ==
    /\ ws_pc = "idle"
    /\ ws_calls = 2
    /\ ws_websocket = 1
    /\ ws_connected
    /\ ws_attempts = ws_max_retries
    /\ ws_retry_count = ws_max_retries
    /\ ws_result = "returned"

\* the first connect call, and every call before one has connected, raises
\* ConnectionError when all its attempts failed
C37_RaisesBeforeFirstConnection ==
    (ws_pc = "idle" /\ ws_calls > 0 /\ ~ws_connected /\ ws_retry_count = ws_max_retries)
        => ws_result = "ConnectionError"

====
